---------------------------- MODULE Spec2Model ----------------------------
(***************************************************************************)
(* A model of the colour-palette generator (the generator view, the        *)
(* palette library and the key-value store they share).                    *)
(*                                                                         *)
(* Strings are sequences of one-character strings, so that formatting and  *)
(* parsing are computed character by character, as the code does.          *)
(* Floating-point luminances are fixed-point numbers: a luminance l of the *)
(* code is the integer round(l * 10000).                                   *)
(***************************************************************************)
EXTENDS Integers, Sequences, FiniteSets, TLC

(***************************************************************************)
(* Strings                                                                 *)
(***************************************************************************)

\* The digits Number.prototype.toString(16) writes.
HexChars == << "0", "1", "2", "3", "4", "5", "6", "7",
               "8", "9", "a", "b", "c", "d", "e", "f" >>

DecChars == << "0", "1", "2", "3", "4", "5", "6", "7", "8", "9" >>

\* What the regular expression class \s matches, among the characters used.
WhiteSpace == { " " }

\* The value of a character as a digit in radix 16 (either case), -1 if none.
HexValue(c) ==
    CASE c = "0" -> 0  [] c = "1" -> 1  [] c = "2" -> 2  [] c = "3" -> 3
      [] c = "4" -> 4  [] c = "5" -> 5  [] c = "6" -> 6  [] c = "7" -> 7
      [] c = "8" -> 8  [] c = "9" -> 9
      [] c \in {"a", "A"} -> 10  [] c \in {"b", "B"} -> 11
      [] c \in {"c", "C"} -> 12  [] c \in {"d", "D"} -> 13
      [] c \in {"e", "E"} -> 14  [] c \in {"f", "F"} -> 15
      [] OTHER -> -1

\* The value of a character as a decimal digit (\d), -1 if none.
DecValue(c) == IF HexValue(c) \in 0..9 THEN HexValue(c) ELSE -1

\* n.toString(16); a negative n gives "-" and the digits of -n.
RECURSIVE ToString16(_)
ToString16(n) ==
    IF n < 0 THEN << "-" >> \o ToString16(-n)
    ELSE IF n < 16 THEN << HexChars[n + 1] >>
    ELSE ToString16(n \div 16) \o << HexChars[(n % 16) + 1] >>

\* n.toString() in a template literal, n >= 0.
RECURSIVE ToString10(_)
ToString10(n) ==
    IF n < 10 THEN << DecChars[n + 1] >>
    ELSE ToString10(n \div 10) \o << DecChars[(n % 10) + 1] >>

\* s.padStart(2, "0")
PadStart2(s) == IF Len(s) < 2 THEN << "0" >> \o s ELSE s

\* s.slice(from, to) with 0 <= from <= to, JavaScript's 0-based half-open range.
Slice(s, from, to) ==
    LET hi == IF to < Len(s) THEN to ELSE Len(s)
    IN  IF from >= hi THEN << >> ELSE SubSeq(s, from + 1, hi)

\* s.startsWith(p)
StartsWith(s, p) == Len(s) >= Len(p) /\ SubSeq(s, 1, Len(p)) = p

\* s.replace(c, ""): the first occurrence of the character c removed.
RECURSIVE ReplaceFirst(_, _)
ReplaceFirst(s, c) ==
    IF s = << >> THEN << >>
    ELSE IF Head(s) = c THEN Tail(s)
    ELSE << Head(s) >> \o ReplaceFirst(Tail(s), c)

\* The first index >= i of s whose character is not in set (Len(s) + 1 if none).
RECURSIVE SkipWhile(_, _, _)
SkipWhile(s, i, set) ==
    IF i <= Len(s) /\ s[i] \in set THEN SkipWhile(s, i + 1, set) ELSE i

\* String.prototype.toLowerCase, over the letters the model's strings use.
UpperCase == << "A", "B", "C", "D", "E", "F", "G", "H", "I", "J", "K", "L", "M", "N", "O", "P", "Q", "R", "S", "T", "U", "V", "W", "X", "Y", "Z" >>
LowerCase == << "a", "b", "c", "d", "e", "f", "g", "h", "i", "j", "k", "l", "m", "n", "o", "p", "q", "r", "s", "t", "u", "v", "w", "x", "y", "z" >>

toLowerCase(s) ==
    [i \in 1..Len(s) |->
       IF \E k \in 1..Len(UpperCase) : UpperCase[k] = s[i]
       THEN LowerCase[CHOOSE k \in 1..Len(UpperCase) : UpperCase[k] = s[i]]
       ELSE s[i]]

\* String.prototype.includes
includes(s, q) ==
    \E i \in 0..(Len(s) - Len(q)) : SubSeq(s, i + 1, i + Len(q)) = q

\* String.prototype.trim
trim(s) ==
    LET inside == { i \in 1..Len(s) : s[i] \notin WhiteSpace }
    IN  IF inside = {} THEN << >>
        ELSE SubSeq(s, CHOOSE i \in inside : \A j \in inside : i <= j,
                       CHOOSE i \in inside : \A j \in inside : i >= j)

\* String.prototype.split(c): the pieces between the occurrences of c.
RECURSIVE split(_, _)
split(s, c) ==
    IF \E i \in 1..Len(s) : s[i] = c
    THEN LET at == CHOOSE i \in 1..Len(s) : s[i] = c /\ \A j \in 1..(i - 1) : s[j] # c
         IN  << SubSeq(s, 1, at - 1) >> \o split(SubSeq(s, at + 1, Len(s)), c)
    ELSE << s >>

\* Array.prototype.join(sep) of an array of strings.
RECURSIVE join(_, _)
join(parts, sep) ==
    IF parts = << >> THEN << >>
    ELSE IF Len(parts) = 1 THEN parts[1]
    ELSE parts[1] \o sep \o join(Tail(parts), sep)

Digits10 == { DecChars[k] : k \in 1..10 }

\* Number(d) of a string of decimal digits.
RECURSIVE DecNumber(_)
DecNumber(d) ==
    IF d = << >> THEN 0
    ELSE 10 * DecNumber(SubSeq(d, 1, Len(d) - 1)) + DecValue(d[Len(d)])

\* parseInt(s, 16): leading white space, a sign and a 0x prefix are skipped,
\* then the longest prefix of hexadecimal digits is read; NaN if it is empty.
RECURSIVE HexPrefixValue(_, _, _)
HexPrefixValue(s, i, acc) ==
    IF i <= Len(s) /\ HexValue(s[i]) >= 0
    THEN HexPrefixValue(s, i + 1, 16 * acc + HexValue(s[i]))
    ELSE acc

parseInt16(s) ==
    LET a == SkipWhile(s, 1, WhiteSpace)
        neg == a <= Len(s) /\ s[a] = "-"
        b == IF a <= Len(s) /\ s[a] \in {"-", "+"} THEN a + 1 ELSE a
        c == IF b + 1 <= Len(s) /\ s[b] = "0" /\ s[b + 1] \in {"x", "X"}
             THEN b + 2 ELSE b
        n == HexPrefixValue(s, c, 0)
    IN  IF c <= Len(s) /\ HexValue(s[c]) >= 0
        THEN [isNaN |-> FALSE, n |-> IF neg THEN 0 - n ELSE n]
        ELSE [isNaN |-> TRUE, n |-> 0]

(***************************************************************************)
(* Colour model                                                            *)
(***************************************************************************)

\* The value the code calls null.
Null == [null |-> TRUE]

AAA_CONTRAST_RATIO == 7

\* srgbChannelToLinear(channel) for channel in 0..255, times 10000 and
\* rounded: c <= 0.03928 ? c / 12.92 : ((c + 0.055) / 1.055) ^ 2.4, c = channel / 255.
srgbChannelToLinear == <<
       0,     3,     6,     9,    12,    15,    18,    21,    24,    27,    30,    33,    37,    40,    44,    48,
      52,    56,    60,    65,    70,    75,    80,    86,    91,    97,   103,   110,   116,   123,   130,   137,
     144,   152,   160,   168,   176,   185,   194,   203,   212,   222,   232,   242,   252,   262,   273,   284,
     296,   307,   319,   331,   343,   356,   369,   382,   395,   409,   423,   437,   452,   467,   482,   497,
     513,   529,   545,   561,   578,   595,   612,   630,   648,   666,   685,   704,   723,   742,   762,   782,
     802,   823,   844,   865,   887,   908,   931,   953,   976,   999,  1022,  1046,  1070,  1095,  1119,  1144,
    1170,  1195,  1221,  1248,  1274,  1301,  1329,  1356,  1384,  1413,  1441,  1470,  1500,  1529,  1559,  1590,
    1620,  1651,  1683,  1714,  1746,  1779,  1812,  1845,  1878,  1912,  1946,  1981,  2016,  2051,  2086,  2122,
    2159,  2195,  2232,  2270,  2307,  2346,  2384,  2423,  2462,  2502,  2542,  2582,  2623,  2664,  2705,  2747,
    2789,  2831,  2874,  2918,  2961,  3005,  3050,  3095,  3140,  3185,  3231,  3278,  3325,  3372,  3419,  3467,
    3515,  3564,  3613,  3663,  3712,  3763,  3813,  3864,  3916,  3968,  4020,  4072,  4125,  4179,  4233,  4287,
    4342,  4397,  4452,  4508,  4564,  4621,  4678,  4735,  4793,  4851,  4910,  4969,  5029,  5089,  5149,  5210,
    5271,  5333,  5395,  5457,  5520,  5583,  5647,  5711,  5776,  5841,  5906,  5972,  6038,  6105,  6172,  6240,
    6308,  6376,  6445,  6514,  6584,  6654,  6724,  6795,  6867,  6939,  7011,  7084,  7157,  7231,  7305,  7379,
    7454,  7529,  7605,  7682,  7758,  7835,  7913,  7991,  8070,  8148,  8228,  8308,  8388,  8469,  8550,  8632,
    8714,  8796,  8879,  8963,  9047,  9131,  9216,  9301,  9387,  9473,  9560,  9647,  9734,  9823,  9911, 10000 >>

\* Relative luminance (times 10000) of r, g, b in 0..255.
getRelativeLuminance(r, g, b) ==
    ( 2126 * srgbChannelToLinear[r + 1]
    + 7152 * srgbChannelToLinear[g + 1]
    +  722 * srgbChannelToLinear[b + 1] + 5000 ) \div 10000

\* The ratio (lighter + 0.05) / (darker + 0.05) as the pair
\* << numerator, denominator >>, both times 10000.
getContrastRatio(l1, l2) ==
    LET lighter == IF l1 >= l2 THEN l1 ELSE l2
        darker == IF l1 >= l2 THEN l2 ELSE l1
    IN  << lighter + 500, darker + 500 >>

\* ratio >= tenths / 10
RatioAtLeast(ratio, tenths) == 10 * ratio[1] >= tenths * ratio[2]

getAccessibilityLevel(ratio) ==
    IF RatioAtLeast(ratio, 10 * AAA_CONTRAST_RATIO) THEN "AAA"
    ELSE IF RatioAtLeast(ratio, 45) THEN "AA"
    ELSE "none"

parseHexToRgb(hex) ==
    LET clean == ReplaceFirst(hex, "#")
        r == parseInt16(Slice(clean, 0, 2))
        g == parseInt16(Slice(clean, 2, 4))
        b == parseInt16(Slice(clean, 4, 6))
    IN  IF Len(clean) # 6 THEN Null
        ELSE IF r.isNaN \/ g.isNaN \/ b.isNaN THEN Null
        ELSE [r |-> r.n, g |-> g.n, b |-> b.n]

\* A variant that tests against the AA threshold.
isAaContrastWithWhite(r, g, b) ==
    LET bgL == getRelativeLuminance(r, g, b)
        whiteL == 10000
        ratio == getContrastRatio(whiteL, bgL)
    IN  RatioAtLeast(ratio, 45)

isAaaContrastWithWhite(r, g, b) ==
    LET bgL == getRelativeLuminance(r, g, b)
        whiteL == 10000
        ratio == getContrastRatio(whiteL, bgL)
    IN  RatioAtLeast(ratio, 10 * AAA_CONTRAST_RATIO)

\* The conversion without padStart.
rgbToHexNoPad(r, g, b) ==
    ToString16(r) \o ToString16(g) \o ToString16(b)

rgbToHex(r, g, b) ==
    PadStart2(ToString16(r)) \o PadStart2(ToString16(g)) \o PadStart2(ToString16(b))

\* The template literal `rgb(${r}, ${g}, ${b})`.
formatRgb(r, g, b) ==
    << "r", "g", "b", "(" >> \o ToString10(r) \o << ",", " " >>
       \o ToString10(g) \o << ",", " " >> \o ToString10(b) \o << ")" >>


\* rgbStr.match(/rgb\s*\((\d+)\s*,\s*(\d+)\s*,\s*(\d+)\s*\)/i) tried at index p:
\* the three captured numbers, or Null.  Every \s* and \d+ is followed by a
\* character outside its class, so the greedy match is the only one.
MatchRgbAt(s, p) ==
    LET n == Len(s)
        i1 == SkipWhile(s, p + 3, WhiteSpace)
        d1 == i1 + 1
        e1 == SkipWhile(s, d1, Digits10)
        i2 == SkipWhile(s, e1, WhiteSpace)
        d2 == SkipWhile(s, i2 + 1, WhiteSpace)
        e2 == SkipWhile(s, d2, Digits10)
        i3 == SkipWhile(s, e2, WhiteSpace)
        d3 == SkipWhile(s, i3 + 1, WhiteSpace)
        e3 == SkipWhile(s, d3, Digits10)
        i4 == SkipWhile(s, e3, WhiteSpace)
    IN  IF /\ p + 2 <= n
           /\ s[p] \in {"r", "R"} /\ s[p + 1] \in {"g", "G"} /\ s[p + 2] \in {"b", "B"}
           /\ i1 <= n /\ s[i1] = "("
           /\ e1 > d1
           /\ i2 <= n /\ s[i2] = ","
           /\ e2 > d2
           /\ i3 <= n /\ s[i3] = ","
           /\ e3 > d3
           /\ i4 <= n /\ s[i4] = ")"
        THEN [r |-> DecNumber(SubSeq(s, d1, e1 - 1)),
              g |-> DecNumber(SubSeq(s, d2, e2 - 1)),
              b |-> DecNumber(SubSeq(s, d3, e3 - 1))]
        ELSE Null

\* The leftmost match of the regular expression in s, or Null.
RECURSIVE MatchRgbFrom(_, _)
MatchRgbFrom(s, p) ==
    IF p > Len(s) THEN Null
    ELSE IF MatchRgbAt(s, p) # Null THEN MatchRgbAt(s, p)
    ELSE MatchRgbFrom(s, p + 1)

SentinelHex == << "0", "0", "0", "0", "0", "0" >>

rgbStringToHex(rgbStr) ==
    LET match == MatchRgbFrom(rgbStr, 1)
    IN  IF match = Null THEN SentinelHex
        ELSE rgbToHex(match.r, match.g, match.b)

\* value.startsWith("rgb")
IsRgbString(value) == StartsWith(value, << "r", "g", "b" >>)

\* The HEX form the analysis uses for a stored value.
NormalizeHex(value) == IF IsRgbString(value) THEN rgbStringToHex(value) ELSE value

\* The row accessibilityAnalysis computes for one value, Null when
\* parseHexToRgb gives null.
analysisRow(value) ==
    LET hex == NormalizeHex(value)
        rgb == parseHexToRgb(hex)
    IN  IF rgb = Null THEN Null
        ELSE LET bgL == getRelativeLuminance(rgb.r, rgb.g, rgb.b)
                 whiteRatio == getContrastRatio(10000, bgL)
                 blackRatio == getContrastRatio(0, bgL)
             IN  [hex |-> << "#" >> \o hex,
                  whiteRatio |-> whiteRatio,
                  blackRatio |-> blackRatio,
                  whiteLevel |-> getAccessibilityLevel(whiteRatio),
                  blackLevel |-> getAccessibilityLevel(blackRatio)]

\* The computed accessibilityAnalysis: the rows of the values, the nulls
\* filtered out.
accessibilityAnalysis(cols) ==
    LET kept == SelectSeq(cols, LAMBDA c : analysisRow(c.value) # Null)
    IN  [i \in 1..Len(kept) |-> analysisRow(kept[i].value)]

\* ratio a > ratio b, both pairs << numerator, denominator >>.
RatioGreater(a, b) == a[1] * b[2] > b[1] * a[2]

\* The loop of accentColor from slot i on: the best candidate so far is
\* replaced only by a strictly greater ratio; a slot parseHexToRgb rejects
\* is skipped.
RECURSIVE accentScan(_, _, _, _)
accentScan(cols, i, midL, best) ==
    IF i > Len(cols) THEN best
    ELSE LET h == NormalizeHex(cols[i].value)
             rgb == parseHexToRgb(h)
         IN  IF rgb = Null THEN accentScan(cols, i + 1, midL, best)
             ELSE LET l == getRelativeLuminance(rgb.r, rgb.g, rgb.b)
                      ratio == getContrastRatio(midL, l)
                  IN  IF best = Null \/ RatioGreater(ratio, best.ratio)
                      THEN accentScan(cols, i + 1, midL,
                                      [value |-> << "#" >> \o h, ratio |-> ratio])
                      ELSE accentScan(cols, i + 1, midL, best)

\* The computed accentColor; the slot at index floor(length / 2), counted
\* from 0, is the reference.
accentColor(cols) ==
    IF Len(cols) = 0 THEN Null
    ELSE LET mid == cols[(Len(cols) \div 2) + 1]
             midRgb == parseHexToRgb(NormalizeHex(mid.value))
         IN  IF midRgb = Null THEN Null
             ELSE accentScan(cols, 1,
                             getRelativeLuminance(midRgb.r, midRgb.g, midRgb.b),
                             Null)

(***************************************************************************)
(* Constrained random colour generator                                     *)
(***************************************************************************)

\* The triples the random source is sampled over: Math.random is any value
\* of [0, 1), the model keeps the draws that land on one of these triples.
\* <<100, 100, 100>> fails the contrast test (ratio 5.9); <<0, 0, 200>> lies
\* outside the range the code samples.
SampleSpace == { << 10, 60, 120 >>, << 100, 100, 100 >>, << 0, 0, 200 >> }

\* getRandomInt(min, max): the integers Math.floor(Math.random() * (max - min + 1)) + min
\* can be.
getRandomInt(min, max) == min..max

\* The triples one iteration of the loop of getRandomAaaRgbColor can draw.
RandomTriple ==
    { t \in SampleSpace : \A k \in 1..3 : t[k] \in getRandomInt(0, 120) }

\* getRandomAaaRgbColor(): the triples the loop can return (it returns the
\* first draw that passes the test, and draws again otherwise).
getRandomAaaRgbColor ==
    { t \in RandomTriple : isAaaContrastWithWhite(t[1], t[2], t[3]) }

\* One colour written in the encoding type.
EncodeColor(type, t) ==
    IF type = "HEX" THEN rgbToHex(t[1], t[2], t[3]) ELSE formatRgb(t[1], t[2], t[3])

\* generateRandomPaletteValues(type, length): the sequences the call can return.
generateRandomPaletteValues(type, length) ==
    { [i \in 1..length |-> EncodeColor(type, f[i])] :
        f \in [1..length -> getRandomAaaRgbColor] }

\* The record the history keeps of one call of generateRandomPaletteValues.
Call(type, length, result) == [type |-> type, length |-> length, result |-> result]

\* The values a sequence of calls returned, in order.
RECURSIVE Results(_)
Results(calls) ==
    IF calls = << >> THEN << >> ELSE Head(calls).result \o Results(Tail(calls))


(***************************************************************************)
(* State                                                                   *)
(***************************************************************************)

VARIABLES
    view,           \* the mounted view: "boot", "generator", "library", "routing",
                    \* "export"; "broken" when the mounted view holds undefined
                    \* in place of its palette or its items
    format,         \* generator: the ref format
    paletteSize,    \* generator: the ref paletteSize
    colors,         \* generator: the ref colors, a sequence of [value, isPinned]
    pinedColors,    \* generator: the ref pinedColors
    isDarkPreview,  \* generator: the ref isDarkPreview
    items,          \* library view: the ref items
    savedState,     \* localStorage["color-generator-palette-v1"]
    savedLibrary,   \* localStorage["palette_library"]
    activePalette,  \* localStorage["color-generator-active-from-library"]
    lastOp,         \* history: the operation that led to this state
    prev,           \* history: the program state that operation started from
    calls,          \* history: the calls of the random generator that operation made
    left,           \* the number of operations the run may still perform
    search,         \* library view: the ref search
    tagFilter,      \* library view: the ref tagFilter
    showFavoritesOnly, \* library view: the ref showFavoritesOnly
    editingId,      \* library view: the ref editingId
    editName,       \* library view: the ref editName
    editTags,       \* library view: the ref editTags
    exportColors,   \* export view: the ref colors
    showCopied,     \* export view: the ref showCopied
    copiedMessage,  \* export view: the ref copiedMessage
    showToast,      \* generator: the ref showToast
    toastMessage,   \* generator: the ref toastMessage
    toastTimeoutId, \* generator: the variable toastTimeoutId
    timers,         \* the timeouts of the mounted view that have not run yet
    pending,        \* the clipboard writes of the mounted view that have not settled
    now,            \* the clock, in seconds
    copies,         \* history: the number of copy actions issued in the mounted view
    issued,         \* history: what the notification of each of them names, in the
                    \* order they were issued
    shownAt,        \* history: the time the mounted view last showed a notification
    thrown,         \* history: the last operation ended by an uncaught exception
    given,          \* conversions: the value the first function is applied to
    evaluated,      \* conversions: the functions applied so far, each with its result
    loop            \* generation: the call of the generator that is running

vars == << view, format, paletteSize, colors, pinedColors, isDarkPreview, items,
           savedState, savedLibrary, activePalette, lastOp, prev, calls, left,
           search, tagFilter, showFavoritesOnly, editingId, editName, editTags,
           exportColors, showCopied, copiedMessage, showToast, toastMessage,
           toastTimeoutId, timers, pending, now, copies, issued, shownAt, thrown,
           given, evaluated, loop >>

\* The refs of the library view besides items.
libraryVars == << search, tagFilter, showFavoritesOnly, editingId, editName, editTags >>

\* The refs of the export view.
exportVars == << exportColors, showCopied, copiedMessage >>

\* The notification of the generator.
toastVars == << showToast, toastMessage, toastTimeoutId >>

\* Timeouts, clipboard writes and the clock.
asyncVars == << timers, pending, now, copies, issued, shownAt >>

\* The length of the runs explored from the initial state.
MaxOps == 6

\* The number of entries the library may grow to.
MaxLibrary == 2

\* The indexes a pin toggle is tried with (0-based, as in the code); the
\* largest palette has 7 slots, so 7 is out of bounds for every palette.
PinIndexes == 0..7

\* The options of the size select and of the format select.
SizeOptions == { 3, 5, 7 }
FormatOptions == { "HEX", "RGB" }

DefaultPaletteSize == 5

\* A key of the store: getItem returns a falsy value (null or the empty
\* string, which the code does not tell apart) ...
NoValue == [kind |-> "none"]
\* ... or a string JSON.parse throws on ...
Unparsable == [kind |-> "unparsable"]
\* ... or the JSON text of a value of another shape: an object without the
\* fields of a session (no colors array), a library that is not an array ...
Misshapen == [kind |-> "misshapen"]
\* ... or the JSON text of a value.  JSON.stringify and JSON.parse of the
\* strings, booleans, integers, arrays and plain objects stored here give
\* back an equal value; the store holds the value itself.
SavedPaletteState(c, f, s, d) ==
    [kind |-> "json", colors |-> c, format |-> f, size |-> s, isDarkPreview |-> d]

ActivePalette(hexes) == [kind |-> "json", hasColors |-> TRUE, colors |-> hexes]
\* The object {} under the handoff key: JSON without a colors array.
ActiveNoColors == [kind |-> "json", hasColors |-> FALSE, colors |-> << >>]

LibraryOf(entries) == [kind |-> "json", items |-> entries]

Unpinned(values) == [i \in 1..Len(values) |-> [value |-> values[i], isPinned |-> FALSE]]

IsPinned(c) == c.isPinned

Max(a, b) == IF a >= b THEN a ELSE b
Min(a, b) == IF a <= b THEN a ELSE b

\* What the runs of single functions keep; the handlers of the views do
\* not touch it.
functionVars == << given, evaluated, loop >>

\* given while no conversion is under study, loop while no call of the
\* generator is followed step by step.
NoInput == [kind |-> "none"]
NoLoop == [op |-> "none"]

\* The program state, as the history variable prev records it.
Snapshot ==
    [view |-> view, format |-> format, paletteSize |-> paletteSize, colors |-> colors,
     pinedColors |-> pinedColors, isDarkPreview |-> isDarkPreview, items |-> items,
     savedState |-> savedState, savedLibrary |-> savedLibrary,
     activePalette |-> activePalette,
     search |-> search, tagFilter |-> tagFilter,
     showFavoritesOnly |-> showFavoritesOnly, editingId |-> editingId,
     editName |-> editName, editTags |-> editTags]

\* Every operation records itself in the history variables.
Record(name, arg, made) ==
    /\ left > 0
    /\ left' = left - 1
    /\ lastOp' = [name |-> name, arg |-> arg]
    /\ prev' = Snapshot
    /\ calls' = made
    /\ thrown' = FALSE
    /\ UNCHANGED functionVars

\* The same for an operation an uncaught TypeError ends.
Throw(name, arg) ==
    /\ left > 0
    /\ left' = left - 1
    /\ lastOp' = [name |-> name, arg |-> arg]
    /\ prev' = Snapshot
    /\ calls' = << >>
    /\ thrown' = TRUE
    /\ UNCHANGED functionVars

\* A watcher that does not run.
saveToStorageSkipped == UNCHANGED savedState

\* saveToStorage(), run by the watcher of [colors, format, paletteSize,
\* isDarkPreview] once the handler that replaced one of them has returned.
saveToStorage ==
    savedState' = SavedPaletteState(colors', format', paletteSize', isDarkPreview')

\* null of editingId and of toastTimeoutId (the ids are positive numbers).
NoId == 0

\* shownAt while the mounted view has shown no notification.
Never == -1

\* The refs of the views that are not mounted, the idle event loop.
InitRefs ==
    /\ search = << >>
    /\ tagFilter = << >>
    /\ showFavoritesOnly = FALSE
    /\ editingId = NoId
    /\ editName = << >>
    /\ editTags = << >>
    /\ exportColors = << >>
    /\ showCopied = FALSE
    /\ copiedMessage = << >>
    /\ showToast = FALSE
    /\ toastMessage = << >>
    /\ toastTimeoutId = NoId
    /\ timers = {}
    /\ pending = {}
    /\ now = 0
    /\ copies = 0
    /\ issued = << >>
    /\ shownAt = Never
    /\ thrown = FALSE

\* The same, with no single function under study.
InitOther ==
    /\ InitRefs
    /\ given = NoInput
    /\ evaluated = << >>
    /\ loop = NoLoop

Init ==
    /\ view = "boot"
    /\ format = "HEX"
    /\ paletteSize = DefaultPaletteSize
    /\ colors = << >>
    /\ pinedColors = << >>
    /\ isDarkPreview = TRUE
    /\ items = << >>
    /\ savedState = NoValue
    /\ savedLibrary = NoValue
    /\ activePalette = NoValue
    /\ lastOp = [name |-> "none", arg |-> 0]
    /\ prev = [view |-> "none"]
    /\ calls = << >>
    /\ left = MaxOps
    /\ InitOther


(***************************************************************************)
(* Palette engine: what each handler computes.  A handler that calls the   *)
(* random generator has several outcomes; the operators below give the set *)
(* of them, each with the new colors and the calls of the generator it made.*)
(***************************************************************************)

\* k calls of generateRandomPaletteValues(type, 1), the first value of each.
OneAtATime(type, k) ==
    [1..k -> generateRandomPaletteValues(type, 1)]

\* extraValues[0] of each of these calls.
FirstOfEach(extra) == [i \in 1..Len(extra) |-> extra[i][1]]

CallsOf(type, extra) == [i \in 1..Len(extra) |-> Call(type, 1, extra[i])]

\* A variant that cuts only the unpinned slots past the size.
ensurePaletteSizeKeepPinned(cols, size, fmt) ==
    IF Len(cols) < size
    THEN { [colors |-> cols \o Unpinned(nv),
            calls |-> << Call(fmt, size - Len(cols), nv) >>] :
             nv \in generateRandomPaletteValues(fmt, size - Len(cols)) }
    ELSE IF Len(cols) > size
    THEN { [colors |-> Slice(cols, 0, size)
                         \o SelectSeq(Slice(cols, size, Len(cols)), IsPinned),
            calls |-> << >>] }
    ELSE { [colors |-> cols, calls |-> << >>] }

ensurePaletteSize(cols, size, fmt) ==
    IF Len(cols) < size
    THEN { [colors |-> cols \o Unpinned(nv),
            calls |-> << Call(fmt, size - Len(cols), nv) >>] :
             nv \in generateRandomPaletteValues(fmt, size - Len(cols)) }
    ELSE IF Len(cols) > size
    THEN { [colors |-> Slice(cols, 0, size), calls |-> << >>] }
    ELSE { [colors |-> cols, calls |-> << >>] }

\* A variant that replaces the unpinned slots where they stand.
generateNewPaletteInPlace(cols, size, fmt) ==
    LET unpinnedAt == SelectSeq([i \in 1..Len(cols) |-> i], LAMBDA i : ~cols[i].isPinned)
        rank(i) == CHOOSE k \in 1..Len(unpinnedAt) : unpinnedAt[k] = i
    IN  { [colors |-> [i \in 1..Len(cols) |->
                         IF cols[i].isPinned THEN cols[i]
                         ELSE [value |-> nv[rank(i)], isPinned |-> FALSE]],
           calls |-> << Call(fmt, Len(unpinnedAt), nv) >>] :
             nv \in generateRandomPaletteValues(fmt, Len(unpinnedAt)) }

\* A variant that regenerates every slot, pinned or not.
generateNewPaletteAll(cols, size, fmt) ==
    { [colors |-> Unpinned(nv), calls |-> << Call(fmt, size, nv) >>] :
        nv \in generateRandomPaletteValues(fmt, size) }

generateNewPalette(cols, size, fmt) ==
    LET pinned == SelectSeq(cols, IsPinned)
        pinnedCount == Len(pinned)
        needed == Max(0, size - pinnedCount)
        \* the second loop pushes one new value per unpinned slot while i < newValues.length
        used == Min(Len(cols) - pinnedCount, needed)
        \* the while loop runs until result.length reaches the size
        lacking == Max(0, size - (pinnedCount + used))
    IN  { [colors |-> Slice(pinned \o Unpinned(SubSeq(nv, 1, used))
                                   \o Unpinned(FirstOfEach(extra)), 0, size),
           calls |-> << Call(fmt, needed, nv) >> \o CallsOf(fmt, extra)] :
             nv \in generateRandomPaletteValues(fmt, needed),
             extra \in OneAtATime(fmt, lacking) }

\* One stored value rewritten in the encoding fmt.
Reencode(value, fmt) ==
    LET ch == IF IsRgbString(value) THEN MatchRgbFrom(value, 1) ELSE parseHexToRgb(value)
    IN  IF ch = Null THEN value
        ELSE IF fmt = "HEX" THEN rgbToHex(ch.r, ch.g, ch.b) ELSE formatRgb(ch.r, ch.g, ch.b)

\* A variant that rewrites the pinned slots in the new encoding.
handleChangeFormatReencode(cols, size, fmt) ==
    LET kept == SelectSeq(cols, IsPinned)
        pinned == [i \in 1..Len(kept) |->
                     [value |-> Reencode(kept[i].value, fmt), isPinned |-> TRUE]]
        pinnedCount == Len(pinned)
        needed == Max(0, size - pinnedCount)
        used == Min(Len(cols) - pinnedCount, needed)
        lacking == Max(0, size - (pinnedCount + used))
    IN  { [colors |-> Slice(pinned \o Unpinned(SubSeq(nv, 1, used))
                                   \o Unpinned(FirstOfEach(extra)), 0, size),
           calls |-> << Call(fmt, needed, nv) >> \o CallsOf(fmt, extra)] :
             nv \in generateRandomPaletteValues(fmt, needed),
             extra \in OneAtATime(fmt, lacking) }

handleChangeFormat(cols, size, fmt) ==
    LET pinned == SelectSeq(cols, IsPinned)
        pinnedCount == Len(pinned)
        needed == Max(0, size - pinnedCount)
        used == Min(Len(cols) - pinnedCount, needed)
        lacking == Max(0, size - (pinnedCount + used))
    IN  { [colors |-> Slice(pinned \o Unpinned(SubSeq(nv, 1, used))
                                   \o Unpinned(FirstOfEach(extra)), 0, size),
           calls |-> << Call(fmt, needed, nv) >> \o CallsOf(fmt, extra)] :
             nv \in generateRandomPaletteValues(fmt, needed),
             extra \in OneAtATime(fmt, lacking) }

\* A variant that pins the slot instead of flipping its flag.
handleTogglePinSet(cols, pined, index) ==
    IF index + 1 \in 1..Len(cols)
    THEN LET toggled == [cols EXCEPT ![index + 1].isPinned = TRUE]
         IN  [colors |-> toggled, pinedColors |-> SelectSeq(toggled, IsPinned)]
    ELSE [colors |-> cols, pinedColors |-> pined]

\* handleTogglePin(index), index 0-based: the new colors and pinedColors.
handleTogglePin(cols, pined, index) ==
    IF index + 1 \in 1..Len(cols)
    THEN LET toggled == [cols EXCEPT ![index + 1].isPinned = ~cols[index + 1].isPinned]
         IN  [colors |-> toggled, pinedColors |-> SelectSeq(toggled, IsPinned)]
    ELSE [colors |-> cols, pinedColors |-> pined]

\* A variant that never grows the size to the number of applied colours.
applyFromLibraryFixedSize(hexes, size, fmt) ==
    LET fromLibrary == Unpinned(hexes)
    IN  IF Len(fromLibrary) < size
        THEN { [paletteSize |-> size,
                colors |-> Slice(fromLibrary \o Unpinned(extra), 0, size),
                calls |-> << Call(fmt, size - Len(fromLibrary), extra) >>] :
                  extra \in generateRandomPaletteValues(fmt, size - Len(fromLibrary)) }
        ELSE { [paletteSize |-> size,
                colors |-> Slice(fromLibrary, 0, size),
                calls |-> << >>] }

\* The handoff branch of onMounted, taken when the handoff value parses to an
\* object with a non-empty colors array: the new size, colors and generated values.
applyFromLibrary(hexes, size, fmt) ==
    LET fromLibrary == Unpinned(hexes)
        newSize == IF size < Len(fromLibrary) THEN Len(fromLibrary) ELSE size
    IN  IF Len(fromLibrary) < newSize
        THEN { [paletteSize |-> newSize,
                colors |-> Slice(fromLibrary \o Unpinned(extra), 0, newSize),
                calls |-> << Call(fmt, newSize - Len(fromLibrary), extra) >>] :
                  extra \in generateRandomPaletteValues(fmt, newSize - Len(fromLibrary)) }
        ELSE { [paletteSize |-> newSize,
                colors |-> Slice(fromLibrary, 0, newSize),
                calls |-> << >>] }

\* loadFromStorage() of the generator: the refs after it, from the defaults.
loadFromStorage(raw) ==
    IF raw.kind = "json"
    THEN [format |-> raw.format, paletteSize |-> raw.size, colors |-> raw.colors,
          isDarkPreview |-> raw.isDarkPreview]
    ELSE [format |-> "HEX", paletteSize |-> DefaultPaletteSize, colors |-> << >>,
          isDarkPreview |-> TRUE]

\* The else branch of onMounted: load, then fill an empty palette or fit the size.
loadOrGenerate(raw) ==
    LET l == loadFromStorage(raw)
    IN  IF Len(l.colors) = 0
        THEN { [format |-> l.format, paletteSize |-> l.paletteSize,
                isDarkPreview |-> l.isDarkPreview,
                colors |-> Unpinned(nv),
                calls |-> << Call(l.format, l.paletteSize, nv) >>] :
                  nv \in generateRandomPaletteValues(l.format, l.paletteSize) }
        ELSE { [format |-> l.format, paletteSize |-> l.paletteSize,
                isDarkPreview |-> l.isDarkPreview,
                colors |-> e.colors, calls |-> e.calls] :
                  e \in ensurePaletteSize(l.colors, l.paletteSize, l.format) }

\* A variant that removes the key only after applying the value.
removeActivePaletteIfApplied(raw) ==
    IF raw.kind = "json" /\ raw.hasColors /\ Len(raw.colors) > 0 THEN NoValue ELSE raw

\* The finally clause of the handoff branch: localStorage.removeItem.
removeActivePalette(raw) == NoValue

\* Whether onMounted takes the handoff branch and applies the value.
HandoffUsable(raw) == raw.kind = "json" /\ raw.hasColors /\ Len(raw.colors) > 0

(***************************************************************************)
(* Generator view                                                          *)
(***************************************************************************)

\* The library view is destroyed with its refs; the model keeps the values
\* a new one starts with.
LibraryViewUnmounted ==
    /\ items' = << >>
    /\ search' = << >>
    /\ tagFilter' = << >>
    /\ showFavoritesOnly' = FALSE
    /\ editingId' = NoId
    /\ editName' = << >>
    /\ editTags' = << >>

\* The same for the export view.
ExportViewUnmounted ==
    /\ exportColors' = << >>
    /\ showCopied' = FALSE
    /\ copiedMessage' = << >>

\* The notification state of a newly created generator.
ToastCreated ==
    /\ showToast' = FALSE
    /\ toastMessage' = << >>
    /\ toastTimeoutId' = NoId

\* A view replaces another: the timeouts and clipboard writes of the
\* destroyed view can only change refs nothing shows any more.
ViewReplaced ==
    /\ timers' = {}
    /\ pending' = {}
    /\ copies' = 0
    /\ issued' = << >>
    /\ shownAt' = Never
    /\ UNCHANGED now

\* The generator is set up (refs at their defaults) and onMounted runs; the
\* watcher then saves if a watched ref was assigned.  Reached by opening or
\* reloading the page and by navigation.
onMounted ==
    /\ view' = IF activePalette.kind = "none" /\ savedState.kind = "misshapen"
               THEN "broken" ELSE "generator"
    /\ pinedColors' = << >>
    /\ LibraryViewUnmounted
    /\ ExportViewUnmounted
    /\ ToastCreated
    /\ ViewReplaced
    /\ UNCHANGED savedLibrary
    /\ IF activePalette.kind # "none"
       THEN /\ activePalette' = removeActivePalette(activePalette)
            /\ IF HandoffUsable(activePalette)
               THEN \E o \in applyFromLibrary(activePalette.colors, DefaultPaletteSize, "HEX") :
                      /\ format' = "HEX"
                      /\ isDarkPreview' = TRUE
                      /\ paletteSize' = o.paletteSize
                      /\ colors' = o.colors
                      /\ saveToStorage
                      /\ Record("onMounted", 0, o.calls)
               ELSE /\ format' = "HEX"
                    /\ isDarkPreview' = TRUE
                    /\ paletteSize' = DefaultPaletteSize
                    /\ colors' = << >>
                    /\ UNCHANGED savedState
                    /\ Record("onMounted", 0, << >>)
       ELSE /\ UNCHANGED activePalette
            /\ IF savedState.kind = "misshapen"
               THEN \* loadFromStorage assigns undefined to the four refs, and
                    \* colors.value.length throws; the watcher stores an
                    \* object without colors again.  The variables keep
                    \* the initial values, the view is "broken".
                    /\ format' = "HEX"
                    /\ isDarkPreview' = TRUE
                    /\ paletteSize' = DefaultPaletteSize
                    /\ colors' = << >>
                    /\ UNCHANGED savedState
                    /\ Throw("onMounted", 0)
               ELSE \E o \in loadOrGenerate(savedState) :
                      /\ format' = o.format
                      /\ isDarkPreview' = o.isDarkPreview
                      /\ paletteSize' = o.paletteSize
                      /\ colors' = o.colors
                      /\ saveToStorage
                      /\ Record("onMounted", 0, o.calls)

\* A click on the pin button of the card at index (the handler guards
\* against an index without a slot).
TogglePin(index) ==
    /\ view = "generator"
    /\ LET o == handleTogglePin(colors, pinedColors, index)
       IN  /\ colors' = o.colors
           /\ pinedColors' = o.pinedColors
    /\ UNCHANGED << view, format, paletteSize, isDarkPreview, items,
                    savedState, savedLibrary, activePalette >>
    /\ UNCHANGED << libraryVars, exportVars, toastVars, asyncVars >>
    /\ Record("handleTogglePin", index, << >>)

\* The size select: v-model assigns paletteSize, then handleChangeSize runs.
Resize(n) ==
    /\ view = "generator"
    /\ n # paletteSize
    /\ paletteSize' = n
    /\ \E o \in ensurePaletteSize(colors, n, format) :
         /\ colors' = o.colors
         /\ Record("handleChangeSize", n, o.calls)
    /\ UNCHANGED << view, format, pinedColors, isDarkPreview, items,
                    savedLibrary, activePalette >>
    /\ UNCHANGED << libraryVars, exportVars, toastVars, asyncVars >>
    /\ saveToStorage

\* The button "random palette".
Regenerate ==
    /\ view = "generator"
    /\ \E o \in generateNewPalette(colors, paletteSize, format) :
         /\ colors' = o.colors
         /\ Record("generateNewPalette", 0, o.calls)
    /\ UNCHANGED << view, format, paletteSize, pinedColors, isDarkPreview, items,
                    savedLibrary, activePalette >>
    /\ UNCHANGED << libraryVars, exportVars, toastVars, asyncVars >>
    /\ saveToStorage

\* The format select: v-model assigns format, then handleChangeFormat runs.
ChangeEncoding(f) ==
    /\ view = "generator"
    /\ f # format
    /\ format' = f
    /\ \E o \in handleChangeFormat(colors, paletteSize, f) :
         /\ colors' = o.colors
         /\ Record("handleChangeFormat", 0, o.calls)
    /\ UNCHANGED << view, paletteSize, pinedColors, isDarkPreview, items,
                    savedLibrary, activePalette >>
    /\ UNCHANGED << libraryVars, exportVars, toastVars, asyncVars >>
    /\ saveToStorage

\* The preview background button.
ToggleDarkPreview ==
    /\ view = "generator"
    /\ isDarkPreview' = ~isDarkPreview
    /\ UNCHANGED << view, format, paletteSize, colors, pinedColors, items,
                    savedLibrary, activePalette >>
    /\ UNCHANGED << libraryVars, exportVars, toastVars, asyncVars >>
    /\ saveToStorage
    /\ Record("toggleDarkPreview", 0, << >>)


(***************************************************************************)
(* Saving to the library, and the library view                             *)
(***************************************************************************)

GeneratedTag == << "g", "e", "n", "e", "r", "a", "t", "e", "d" >>

\* The name of a new entry: the word for "palette" (written here in Latin
\* letters) and the time, the rendering of the clock left out.
DefaultName == << "P", "a", "l", "i", "t", "r", "a", " " >>

\* The library the store holds, as savePalette and the library view read
\* it: the parsed array, or the empty array when there is none.
StoredLibrary(raw) == IF raw.kind = "json" THEN raw.items ELSE << >>

\* An id no stored entry has (the code joins the clock and a random suffix).
NewId(existing) ==
    CHOOSE id \in 1..(Len(existing) + 1) :
        /\ \A k \in 1..Len(existing) : existing[k].id # id
        /\ \A j \in 1..(id - 1) : \E k \in 1..Len(existing) : existing[k].id = j

\* The HEX string savePalette stores for one pinned colour.
savedHex(value) ==
    IF IsRgbString(value)
    THEN LET match == MatchRgbFrom(value, 1)
         IN  IF match = Null THEN SentinelHex
             ELSE rgbToHex(match.r, match.g, match.b)
    ELSE ReplaceFirst(value, "#")

\* savePalette(pinned): the library written to the store (the name and the
\* creation time, a rendering of the clock, are left out of the entry).
savePalette(pinned, raw) ==
    LET existing == StoredLibrary(raw)
        hexColors == [i \in 1..Len(pinned) |-> savedHex(pinned[i].value)]
        newItem == [id |-> NewId(existing), name |-> DefaultName,
                    tags |-> << GeneratedTag >>,
                    colors |-> hexColors, favorite |-> FALSE]
    IN  << newItem >> \o existing

\* The button "save to the library", rendered while pinedColors is not empty.
SavePalette ==
    /\ view = "generator"
    /\ Len(pinedColors) > 0
    /\ Len(StoredLibrary(savedLibrary)) < MaxLibrary
    /\ savedLibrary' = LibraryOf(savePalette(pinedColors, savedLibrary))
    /\ UNCHANGED << view, format, paletteSize, colors, pinedColors, isDarkPreview,
                    items, savedState, activePalette >>
    /\ UNCHANGED << libraryVars, exportVars, toastVars, asyncVars >>
    /\ Record("savePalette", 0, << >>)

\* The generator component is destroyed with its refs; the model keeps the
\* values a new component starts with.
GeneratorUnmounted ==
    /\ format' = "HEX"
    /\ paletteSize' = DefaultPaletteSize
    /\ colors' = << >>
    /\ pinedColors' = << >>
    /\ isDarkPreview' = TRUE
    /\ ToastCreated

\* The library view is mounted: loadFromStorage, and the deep watcher of
\* items writes the loaded array back.
MountLibrary ==
    /\ view \in {"boot", "generator", "library", "export", "broken"}
    /\ view' = IF savedLibrary.kind = "misshapen" THEN "broken" ELSE "library"
    /\ items' = StoredLibrary(savedLibrary)
    /\ savedLibrary' = IF savedLibrary.kind = "json" THEN LibraryOf(items') ELSE savedLibrary
    /\ GeneratorUnmounted
    /\ ExportViewUnmounted
    /\ ViewReplaced
    /\ search' = << >>
    /\ tagFilter' = << >>
    /\ showFavoritesOnly' = FALSE
    /\ editingId' = NoId
    /\ editName' = << >>
    /\ editTags' = << >>
    /\ UNCHANGED << savedState, activePalette >>
    /\ IF savedLibrary.kind = "misshapen"
       THEN \* items holds a value that is no array: rendering the list throws
            Throw("mountLibrary", 0)
       ELSE Record("mountLibrary", 0, << >>)

\* applyPalette(item) for the item at position i of the list: the handoff
\* is written and the router is asked for the generator view.
ApplyPalette(i) ==
    /\ view = "library"
    /\ i \in 1..Len(items)
    /\ activePalette' = ActivePalette(items[i].colors)
    /\ view' = "routing"
    /\ UNCHANGED << format, paletteSize, colors, pinedColors, isDarkPreview, items,
                    savedState, savedLibrary >>
    /\ UNCHANGED << libraryVars, exportVars, toastVars, asyncVars >>
    /\ Record("applyPalette", i, << >>)

(***************************************************************************)
(* The library view: filters, favorites, deletion, editing                 *)
(***************************************************************************)

\* A variant that compares the tag filter with the tags as they are written.
filteredItemsExactCase ==
    LET q == toLowerCase(trim(search))
        tag == toLowerCase(trim(tagFilter))
        keep(it) ==
            /\ ~(showFavoritesOnly /\ ~it.favorite)
            /\ q # << >> =>
                 \/ includes(toLowerCase(it.name), q)
                 \/ \E k \in 1..Len(it.tags) : includes(toLowerCase(it.tags[k]), q)
            /\ tag # << >> => \E k \in 1..Len(it.tags) : it.tags[k] = tag
    IN  SelectSeq(items, keep)

\* The computed filteredItems.
filteredItems ==
    LET q == toLowerCase(trim(search))
        tag == toLowerCase(trim(tagFilter))
        keep(it) ==
            /\ ~(showFavoritesOnly /\ ~it.favorite)
            /\ q # << >> =>
                 \/ includes(toLowerCase(it.name), q)
                 \/ \E k \in 1..Len(it.tags) : includes(toLowerCase(it.tags[k]), q)
            /\ tag # << >> => \E k \in 1..Len(it.tags) : toLowerCase(it.tags[k]) = tag
    IN  SelectSeq(items, keep)

\* items.value.find((i) => i.id === id): the position of the first entry
\* with that id, 0 when there is none.
FindIndex(its, id) ==
    IF \E k \in 1..Len(its) : its[k].id = id
    THEN CHOOSE k \in 1..Len(its) : its[k].id = id /\ \A j \in 1..(k - 1) : its[j].id # id
    ELSE 0

\* A variant that marks the entry as favorite.
toggleFavoriteSet(its, id) ==
    LET found == FindIndex(its, id)
    IN  IF found = 0 THEN its
        ELSE [its EXCEPT ![found].favorite = TRUE]

toggleFavorite(its, id) ==
    LET found == FindIndex(its, id)
    IN  IF found = 0 THEN its
        ELSE [its EXCEPT ![found].favorite = ~its[found].favorite]

deleteItem(its, id) == SelectSeq(its, LAMBDA i : i.id # id)

\* The tags saveEdit stores for the text of the tags input.
editedTags(text) ==
    LET pieces == split(text, ",")
        trimmed == [k \in 1..Len(pieces) |-> trim(pieces[k])]
    IN  SelectSeq(trimmed, LAMBDA t : t # << >>)

\* saveEdit(): the items after it (unchanged when nothing is being edited
\* or the edited entry is gone).
saveEdit(its, id, name, tags) ==
    LET found == FindIndex(its, id)
    IN  IF id = NoId \/ found = 0 THEN its
        ELSE [its EXCEPT ![found].name = IF trim(name) # << >> THEN trim(name)
                                         ELSE its[found].name,
                         ![found].tags = editedTags(tags)]

\* The bounded inputs of the library view.
SearchInputs ==
    { << >>, << "s", "u", "n", "s", "e", "t" >>, << " ", "S", "u", "n", "S", "e", "t", " " >>, << "o" >>, << " " >>, << "z", "z" >> }

TagInputs == { << >>, << "s", "u", "n", "s", "e", "t" >>, << "S", "U", "N", "S", "E", "T", " " >>, << "s", "u", "n" >> }

NameInputs == { << >>, << " ", " " >>, << " ", "D", "a", "w", "n", " " >> }

TagsInputs == { << >>, << "," >>, << "a", ",", " ", "a" >>, << "w", "a", "r", "m", ",", ",", " ", "S", "k", "y", " ", ",", "w", "a", "r", "m" >> }

\* The deep watcher of items: saveToStorage() of the library view.
saveLibrary == savedLibrary' = LibraryOf(items')

\* What a handler of the library view leaves alone.
LibraryFrame ==
    UNCHANGED << view, format, paletteSize, colors, pinedColors, isDarkPreview,
                 savedState, activePalette, exportVars, toastVars, asyncVars >>

\* v-model of the search input.
SetSearch(q) ==
    /\ view = "library"
    /\ q # search
    /\ search' = q
    /\ UNCHANGED << items, savedLibrary, tagFilter, showFavoritesOnly, editingId,
                    editName, editTags >>
    /\ LibraryFrame
    /\ Record("search", 0, << >>)

\* v-model of the tag select.
SetTagFilter(t) ==
    /\ view = "library"
    /\ t # tagFilter
    /\ tagFilter' = t
    /\ UNCHANGED << items, savedLibrary, search, showFavoritesOnly, editingId,
                    editName, editTags >>
    /\ LibraryFrame
    /\ Record("tagFilter", 0, << >>)

\* v-model of the favorites checkbox.
SetFavoritesOnly ==
    /\ view = "library"
    /\ showFavoritesOnly' = ~showFavoritesOnly
    /\ UNCHANGED << items, savedLibrary, search, tagFilter, editingId,
                    editName, editTags >>
    /\ LibraryFrame
    /\ Record("showFavoritesOnly", 0, << >>)

ToggleFavorite(id) ==
    /\ view = "library"
    /\ items' = toggleFavorite(items, id)
    /\ IF items' # items THEN saveLibrary ELSE UNCHANGED savedLibrary
    /\ UNCHANGED libraryVars
    /\ LibraryFrame
    /\ Record("toggleFavorite", id, << >>)

\* deleteItem assigns a new array to items, so the watcher always runs.
DeleteItem(id) ==
    /\ view = "library"
    /\ items' = deleteItem(items, id)
    /\ saveLibrary
    /\ UNCHANGED libraryVars
    /\ LibraryFrame
    /\ Record("deleteItem", id, << >>)

\* startEdit(item) for the item at position i.
StartEdit(i) ==
    /\ view = "library"
    /\ i \in 1..Len(items)
    /\ editingId' = items[i].id
    /\ editName' = items[i].name
    /\ editTags' = join(items[i].tags, << ",", " " >>)
    /\ UNCHANGED << items, savedLibrary, search, tagFilter, showFavoritesOnly >>
    /\ LibraryFrame
    /\ Record("startEdit", i, << >>)

\* v-model of the two inputs of the edit form, shown while editingId is set.
EditInput(name, tags) ==
    /\ view = "library"
    /\ editingId # NoId
    /\ editName' = name
    /\ editTags' = tags
    /\ UNCHANGED << items, savedLibrary, search, tagFilter, showFavoritesOnly, editingId >>
    /\ LibraryFrame
    /\ Record("editInput", 0, << >>)

\* saveEdit(); found.tags is assigned a new array, so the watcher runs
\* when an entry was found.
SaveEdit ==
    /\ view = "library"
    /\ editingId # NoId
    /\ items' = saveEdit(items, editingId, editName, editTags)
    /\ IF FindIndex(items, editingId) # 0
       THEN /\ saveLibrary
            /\ editingId' = NoId
            /\ editName' = << >>
            /\ editTags' = << >>
       ELSE UNCHANGED << savedLibrary, editingId, editName, editTags >>
    /\ UNCHANGED << search, tagFilter, showFavoritesOnly >>
    /\ LibraryFrame
    /\ Record("saveEdit", editingId, << >>)

CancelEdit ==
    /\ view = "library"
    /\ editingId # NoId
    /\ editingId' = NoId
    /\ editName' = << >>
    /\ editTags' = << >>
    /\ UNCHANGED << items, savedLibrary, search, tagFilter, showFavoritesOnly >>
    /\ LibraryFrame
    /\ Record("cancelEdit", 0, << >>)

\* The library of the specification's search scenario, with the favorite
\* flags fav.
ScenarioLibrary(fav) ==
    << [id |-> 1, name |-> << "S", "u", "n", "s", "e", "t", " ", "g", "l", "o", "w" >>, tags |-> << >>,
        colors |-> << SentinelHex >>, favorite |-> fav[1]],
       [id |-> 2, name |-> << "O", "c", "e", "a", "n" >>, tags |-> << << "s", "u", "n", "s", "e", "t" >> >>,
        colors |-> << SentinelHex >>, favorite |-> fav[2]],
       [id |-> 3, name |-> << "F", "o", "r", "e", "s", "t" >>, tags |-> << >>,
        colors |-> << SentinelHex >>, favorite |-> fav[3]] >>

\* A library whose tags are written with capital letters.
TaggedLibrary ==
    << [id |-> 2, name |-> DefaultName, tags |-> << << "S", "u", "n", "s", "e", "t" >>, << "w", "a", "r", "m" >> >>,
        colors |-> << SentinelHex >>, favorite |-> TRUE],
       [id |-> 1, name |-> << "O", "c", "e", "a", "n" >>, tags |-> << GeneratedTag >>,
        colors |-> << SentinelHex >>, favorite |-> FALSE] >>

LibraryChoices ==
    { ScenarioLibrary(<< FALSE, FALSE, FALSE >>), ScenarioLibrary(<< TRUE, FALSE, TRUE >>),
      TaggedLibrary }

\* The ids the handlers of the library view are called with: those of the
\* entries and one no entry has.
IdInputs == 1..4

MaxLibraryOps == 3

\* The library view showing one of the libraries.
InitLibraryView ==
    /\ InitOther
    /\ view = "library"
    /\ items \in LibraryChoices
    /\ savedLibrary = LibraryOf(items)
    /\ savedState = NoValue
    /\ activePalette = NoValue
    /\ format = "HEX"
    /\ paletteSize = DefaultPaletteSize
    /\ colors = << >>
    /\ pinedColors = << >>
    /\ isDarkPreview = TRUE
    /\ lastOp = [name |-> "none", arg |-> 0]
    /\ prev = [view |-> "none"]
    /\ calls = << >>
    /\ left = MaxLibraryOps

NextLibrary ==
    \/ \E q \in SearchInputs : SetSearch(q)
    \/ \E t \in TagInputs : SetTagFilter(t)
    \/ SetFavoritesOnly
    \/ \E id \in IdInputs : ToggleFavorite(id)
    \/ \E id \in IdInputs : DeleteItem(id)
    \/ \E i \in 1..3 : StartEdit(i)
    \/ \E name \in NameInputs, tags \in TagsInputs : EditInput(name, tags)
    \/ SaveEdit
    \/ CancelEdit

SpecLibrary == InitLibraryView /\ [][NextLibrary]_vars

(***************************************************************************)
(* The store's other writers                                               *)
(***************************************************************************)

\* The values another writer of the store (another tab, an older version,
\* the user) may leave under the handoff key.
ForeignHandoffs ==
    { Unparsable, ActiveNoColors, ActivePalette(<< >>),
      ActivePalette(<< << "f", "f", "0", "0", "0", "0" >>,
                       << "0", "0", "f", "f", "0", "0" >>,
                       << "0", "0", "0", "0", "f", "f" >> >>) }

\* The handoff key is overwritten from outside the application.
ExternalWrite ==
    /\ \E v \in ForeignHandoffs : activePalette' = v
    /\ UNCHANGED << view, format, paletteSize, colors, pinedColors, isDarkPreview,
                    items, savedState, savedLibrary >>
    /\ UNCHANGED << libraryVars, exportVars, toastVars, asyncVars >>
    /\ Record("externalWrite", 0, << >>)

(***************************************************************************)
(* Specifications                                                          *)
(***************************************************************************)

\* The application alone, from an empty store.
Next ==
    \/ onMounted
    \/ \E index \in PinIndexes : TogglePin(index)
    \/ \E n \in SizeOptions : Resize(n)
    \/ Regenerate
    \/ \E f \in FormatOptions : ChangeEncoding(f)
    \/ ToggleDarkPreview
    \/ SavePalette
    \/ MountLibrary
    \/ \E i \in 1..MaxLibrary : ApplyPalette(i)

Spec == Init /\ [][Next]_vars

\* The application with the edits of the library view, from the empty
\* store.
NextOwn ==
    \/ Next
    \/ \E id \in 1..MaxLibrary : ToggleFavorite(id)
    \/ \E id \in 1..MaxLibrary : DeleteItem(id)
    \/ \E i \in 1..MaxLibrary : StartEdit(i)
    \/ EditInput(<< "D", "a", "w", "n" >>, << "a", ",", "b" >>)
    \/ SaveEdit
    \/ CancelEdit

SpecOwn == Init /\ [][NextOwn]_vars

\* The application and the other writers of the store.
NextStore == Next \/ ExternalWrite

SpecStore == Init /\ [][NextStore]_vars


(***************************************************************************)
(* One operation from any palette.  The runs of Spec hold only the colour  *)
(* the bounded sample space lets the generator return; SpecAny starts from *)
(* states the application reaches with other draws of the random source    *)
(* (colours that pass the generator's test, in either encoding, pinned or  *)
(* not), and from the library such palettes leave when they are saved.     *)
(***************************************************************************)

\* Two values the generator can return, other than the one of SampleSpace.
OtherValues == { EncodeColor("HEX", << 90, 20, 7 >>), EncodeColor("RGB", << 60, 90, 30 >>) }

SlotChoices == [value : OtherValues, isPinned : BOOLEAN]

\* The palette of the specification's regeneration scenario: the colours
\* ff0000, 00ff00 and 0000ff applied from outside, the middle one pinned.
ScenarioPalette ==
    << [value |-> << "f", "f", "0", "0", "0", "0" >>, isPinned |-> FALSE],
       [value |-> << "0", "0", "f", "f", "0", "0" >>, isPinned |-> TRUE],
       [value |-> << "0", "0", "0", "0", "f", "f" >>, isPinned |-> FALSE] >>

\* The two values in turn, slot i pinned when pins[i].
Alternating(pins) ==
    [i \in 1..Len(pins) |->
       [value |-> IF i % 2 = 1 THEN EncodeColor("HEX", << 90, 20, 7 >>)
                  ELSE EncodeColor("RGB", << 60, 90, 30 >>),
        isPinned |-> pins[i]]]

\* Every palette of the two smaller sizes over the two values, the palettes
\* of the largest size with the values in turn and any pins, and the scenario.
AnyPalettes ==
    UNION { [1..n -> SlotChoices] : n \in { 3, 5 } }
      \cup { Alternating(pins) : pins \in [1..7 -> BOOLEAN] }
      \cup { ScenarioPalette }

\* A palette of size s whose first n slots are pinned.
PinnedPrefix(s, n) == Alternating([i \in 1..s |-> i <= n])

\* The generator showing any palette, one operation to go.
InitGenerator ==
    /\ view = "generator"
    /\ colors \in AnyPalettes
    /\ paletteSize = Len(colors)
    /\ format \in FormatOptions
    /\ isDarkPreview = TRUE
    /\ pinedColors = SelectSeq(colors, IsPinned)
    /\ items = << >>
    /\ savedState = SavedPaletteState(colors, format, paletteSize, isDarkPreview)
    /\ savedLibrary = NoValue
    /\ activePalette = NoValue
    /\ left = 1

\* The library view after the pinned slots of a palette were saved, two
\* operations to go (applying the entry and the generator's start).
InitLibrary ==
    /\ view = "library"
    /\ \E s \in SizeOptions : \E n \in 1..s :
         /\ savedState = SavedPaletteState(PinnedPrefix(s, n), "HEX", s, TRUE)
         /\ savedLibrary =
              LibraryOf(savePalette(SelectSeq(PinnedPrefix(s, n), IsPinned), NoValue))
    /\ items = StoredLibrary(savedLibrary)
    /\ colors = << >>
    /\ paletteSize = DefaultPaletteSize
    /\ format = "HEX"
    /\ isDarkPreview = TRUE
    /\ pinedColors = << >>
    /\ activePalette = NoValue
    /\ left = 2

InitAny ==
    /\ InitGenerator \/ InitLibrary
    /\ InitOther
    /\ lastOp = [name |-> "none", arg |-> 0]
    /\ prev = [view |-> "none"]
    /\ calls = << >>

SpecAny == InitAny /\ [][Next]_vars


(***************************************************************************)
(* Copy notifications: the clipboard write settles later, the notification *)
(* is hidden by a timeout                                                  *)
(***************************************************************************)

\* The delay of the hiding timeout, 2000 ms, in seconds.
ToastSeconds == 2

\* window.setTimeout returns an id no pending timeout has.
NewTimerId ==
    CHOOSE id \in 1..(Cardinality(timers) + 2) :
        /\ id # toastTimeoutId
        /\ \A t \in timers : t.id # id
        /\ \A j \in 1..(id - 1) : j = toastTimeoutId \/ \E t \in timers : t.id = j

\* The texts of the notifications, in Latin letters.
CopiedSuffix == << " ", "c", "o", "p", "i", "e", "d" >>
FailedPrefix == << "f", "a", "i", "l", "e", "d", " " >>
CodeCopied == << "c", "o", "d", "e", " ", "c", "o", "p", "i", "e", "d" >>
CodeFailed == << "c", "o", "d", "e", " ", "f", "a", "i", "l", "e", "d" >>

\* display of handleCopyColor.
displayOf(rawValue, fmt) ==
    IF fmt = "HEX" THEN << "#" >> \o rawValue ELSE rawValue

\* handleCopyColor up to the await: the clipboard write is started.
CopyColor(index) ==
    /\ view = "generator"
    /\ index + 1 \in 1..Len(colors)
    /\ copies' = copies + 1
    /\ issued' = Append(issued, displayOf(colors[index + 1].value, format))
    /\ pending' = pending \cup
         { [n |-> copies + 1, display |-> displayOf(colors[index + 1].value, format)] }
    /\ UNCHANGED << view, format, paletteSize, colors, pinedColors, isDarkPreview, items,
                    savedState, savedLibrary, activePalette >>
    /\ UNCHANGED << libraryVars, exportVars, toastVars, timers, now, shownAt >>
    /\ Record("handleCopyColor", index, << >>)

\* handleCopyColor after the await: the write of op succeeded or failed.
ToastShown(op, ok) ==
    /\ view = "generator"
    /\ op \in pending
    /\ pending' = pending \ { op }
    /\ toastMessage' = IF ok THEN op.display \o CopiedSuffix ELSE FailedPrefix \o op.display
    /\ showToast' = TRUE
    /\ toastTimeoutId' = NewTimerId
    /\ timers' = { t \in timers : t.id # toastTimeoutId }
                   \cup { [id |-> NewTimerId, due |-> now + ToastSeconds] }
    /\ shownAt' = now
    /\ UNCHANGED << view, format, paletteSize, colors, pinedColors, isDarkPreview, items,
                    savedState, savedLibrary, activePalette >>
    /\ UNCHANGED << libraryVars, exportVars, now, copies, issued >>
    /\ Record("toast", op.n, << >>)

\* The callback of a timeout that is due.
TimeoutRuns(t) ==
    /\ t \in timers
    /\ t.due <= now
    /\ timers' = timers \ { t }
    /\ IF view = "generator"
       THEN showToast' = FALSE /\ UNCHANGED showCopied
       ELSE showCopied' = FALSE /\ UNCHANGED showToast
    /\ UNCHANGED << view, format, paletteSize, colors, pinedColors, isDarkPreview, items,
                    savedState, savedLibrary, activePalette >>
    /\ UNCHANGED << libraryVars, exportColors, copiedMessage, toastMessage,
                    toastTimeoutId, pending, now, copies, issued, shownAt >>
    /\ Record("timeout", t.id, << >>)

\* A second passes; a timeout runs when it is due, not later.
Tick ==
    /\ \A t \in timers : t.due > now
    /\ now' = now + 1
    /\ UNCHANGED << view, format, paletteSize, colors, pinedColors, isDarkPreview, items,
                    savedState, savedLibrary, activePalette >>
    /\ UNCHANGED << libraryVars, exportVars, toastVars, timers, pending, copies, issued,
                    shownAt >>
    /\ Record("tick", 0, << >>)

MaxToastOps == 7

\* The generator showing the palette of the regeneration scenario.
InitToast ==
    /\ InitOther
    /\ view = "generator"
    /\ colors = ScenarioPalette
    /\ paletteSize = Len(colors)
    /\ format \in FormatOptions
    /\ isDarkPreview = TRUE
    /\ pinedColors = SelectSeq(colors, IsPinned)
    /\ items = << >>
    /\ savedState = SavedPaletteState(colors, format, paletteSize, isDarkPreview)
    /\ savedLibrary = NoValue
    /\ activePalette = NoValue
    /\ lastOp = [name |-> "none", arg |-> 0]
    /\ prev = [view |-> "none"]
    /\ calls = << >>
    /\ left = MaxToastOps

NextToast ==
    \/ \E index \in 0..1 : CopyColor(index)
    \/ \E op \in pending, ok \in BOOLEAN : ToastShown(op, ok)
    \/ \E t \in timers : TimeoutRuns(t)
    \/ Tick

SpecToast == InitToast /\ [][NextToast]_vars

(***************************************************************************)
(* The export view                                                         *)
(***************************************************************************)

\* const hex = c.startsWith('#') ? c : `#${c}`
exportHex(c) == IF StartsWith(c, << "#" >>) THEN c ELSE << "#" >> \o c

\* The computed cssVariables, as the lines that join('\n') joins.
cssVariables ==
    << << ":", "r", "o", "o", "t", " ", "{" >> >>
      \o [idx \in 1..Len(exportColors) |->
            << " ", " ", "-", "-", "c", "o", "l", "o", "r", "-" >> \o ToString10(idx) \o << ":", " " >>
              \o exportHex(exportColors[idx]) \o << ";" >>]
      \o << << "}" >> >>

\* The computed scssVariables, as the lines that join('\n') joins.
scssVariables ==
    [idx \in 1..Len(exportColors) |->
       << "$", "c", "o", "l", "o", "r", "-" >> \o ToString10(idx) \o << ":", " " >>
         \o exportHex(exportColors[idx]) \o << ";" >>]

\* The lines of tailwindConfig that depend on the colours.
tailwindConfig ==
    [idx \in 1..Len(exportColors) |->
       << " ", " ", " ", " ", " ", " ", " ", " ", "c", "o", "l", "o", "r" >> \o ToString10(idx) \o << ":", " ", "'" >>
         \o exportHex(exportColors[idx]) \o << "'", "," >>]

\* onMounted of the export view: the colours it reads from the session key.
loadExport(raw) ==
    IF raw.kind = "json" THEN [i \in 1..Len(raw.colors) |-> raw.colors[i].value]
    ELSE << >>

MountExport ==
    /\ view \in { "boot", "generator", "library", "export", "broken" }
    /\ view' = "export"
    /\ exportColors' = loadExport(savedState)
    /\ showCopied' = FALSE
    /\ copiedMessage' = << >>
    /\ GeneratorUnmounted
    /\ LibraryViewUnmounted
    /\ ViewReplaced
    /\ UNCHANGED << savedState, savedLibrary, activePalette >>
    /\ Record("mountExport", 0, << >>)

ExportTexts == { "css", "scss", "tailwind" }

\* copyText(text) up to the await, from one of the three copy buttons
\* (rendered while there are colours).
CopyText(kind) ==
    /\ view = "export"
    /\ Len(exportColors) > 0
    /\ copies' = copies + 1
    /\ issued' = Append(issued, SubSeq(CodeCopied, 1, 4))
    /\ pending' = pending \cup
         { [n |-> copies + 1,
            display |-> join(IF kind = "css" THEN cssVariables
                             ELSE IF kind = "scss" THEN scssVariables
                             ELSE tailwindConfig, << "\n" >>)] }
    /\ UNCHANGED << view, format, paletteSize, colors, pinedColors, isDarkPreview, items,
                    savedState, savedLibrary, activePalette >>
    /\ UNCHANGED << libraryVars, exportVars, toastVars, timers, now, shownAt >>
    /\ Record("copyText", 0, << >>)

\* copyText after the await: a new timeout is set, none is cleared.
CopiedShown(op, ok) ==
    /\ view = "export"
    /\ op \in pending
    /\ pending' = pending \ { op }
    /\ copiedMessage' = IF ok THEN CodeCopied ELSE CodeFailed
    /\ showCopied' = TRUE
    /\ timers' = timers \cup { [id |-> NewTimerId, due |-> now + ToastSeconds] }
    /\ shownAt' = now
    /\ UNCHANGED << view, format, paletteSize, colors, pinedColors, isDarkPreview, items,
                    savedState, savedLibrary, activePalette >>
    /\ UNCHANGED << libraryVars, exportColors, toastVars, now, copies, issued >>
    /\ Record("copied", op.n, << >>)

\* Sessions the generator persists: HEX palettes, RGB palettes, palettes
\* with both encodings, or none.
PersistedSessions ==
    { NoValue,
      SavedPaletteState(ScenarioPalette, "HEX", 3, TRUE),
      SavedPaletteState(Unpinned([i \in 1..3 |-> EncodeColor("HEX", << 10, 60, 120 >>)]),
                        "HEX", 3, FALSE),
      SavedPaletteState(Unpinned([i \in 1..3 |-> EncodeColor("RGB", << 10, 60, 120 >>)]),
                        "RGB", 3, TRUE),
      SavedPaletteState(Alternating(<< TRUE, TRUE, FALSE, FALSE, FALSE >>), "HEX", 5, TRUE) }

MaxExportOps == 8

InitExport ==
    /\ InitOther
    /\ view = "boot"
    /\ savedState \in PersistedSessions
    /\ savedLibrary = NoValue
    /\ activePalette = NoValue
    /\ format = "HEX"
    /\ paletteSize = DefaultPaletteSize
    /\ colors = << >>
    /\ pinedColors = << >>
    /\ isDarkPreview = TRUE
    /\ items = << >>
    /\ lastOp = [name |-> "none", arg |-> 0]
    /\ prev = [view |-> "none"]
    /\ calls = << >>
    /\ left = MaxExportOps

NextExport ==
    \/ MountExport
    \/ \E kind \in ExportTexts : CopyText(kind)
    \/ \E op \in pending, ok \in BOOLEAN : CopiedShown(op, ok)
    \/ \E t \in timers : TimeoutRuns(t)
    \/ Tick

SpecExport == InitExport /\ [][NextExport]_vars

(***************************************************************************)
(* Starting the views on a store other writers left behind                 *)
(***************************************************************************)

\* A handler of a view that holds undefined in place of its array: reading
\* a property of undefined throws.
HandlerThrows ==
    /\ view = "broken"
    /\ UNCHANGED << view, format, paletteSize, colors, pinedColors, isDarkPreview, items,
                    savedState, savedLibrary, activePalette >>
    /\ UNCHANGED << libraryVars, exportVars, toastVars, asyncVars >>
    /\ Throw("handler", 0)

\* A palette another writer left: a malformed rgb string, a value with a
\* letter that is no hexadecimal digit, a value too short, an rgb string
\* with a channel above 255, and a colour of the generator.
MalformedPalette ==
    Unpinned(<< << "r", "g", "b", "(", "1", ",", "2", ")" >>, << "0", "g", "0", "0", "0", "0" >>, << "1", "2", "3", "4", "5" >>, << "r", "g", "b", "(", "3", "0", "0", ",", " ", "0", ",", " ", "0", ")" >>,
                EncodeColor("RGB", << 10, 60, 120 >>) >>)

\* A palette another writer left whose middle slot has a letter that is
\* no hexadecimal digit, between two pairs of equal colours.
MiddlePalette ==
    Unpinned(<< << "0", "a", "3", "c", "7", "8" >>, << "f", "f", "f", "f", "f", "f" >>, << "0", "g", "0", "0", "0", "0" >>, << "3", "c", "5", "a", "1", "e" >>, << "f", "f", "f", "f", "f", "f" >> >>)

\* The values the session key may hold.
StoredSessions ==
    { NoValue, Unparsable, Misshapen,
      SavedPaletteState(MiddlePalette, "HEX", 5, TRUE),
      SavedPaletteState(MalformedPalette, "HEX", 5, TRUE),
      SavedPaletteState(ScenarioPalette, "HEX", 3, FALSE),
      SavedPaletteState(Alternating(<< TRUE, FALSE, FALSE >>), "RGB", 5, TRUE) }

\* The values the library key may hold.
StoredLibraries ==
    { NoValue, Unparsable, Misshapen, LibraryOf(TaggedLibrary),
      LibraryOf(ScenarioLibrary(<< FALSE, TRUE, FALSE >>)) }

MaxStartOps == 3

InitStored ==
    /\ InitOther
    /\ view = "boot"
    /\ savedState \in StoredSessions
    /\ savedLibrary \in StoredLibraries
    /\ activePalette = NoValue
    /\ format = "HEX"
    /\ paletteSize = DefaultPaletteSize
    /\ colors = << >>
    /\ pinedColors = << >>
    /\ isDarkPreview = TRUE
    /\ items = << >>
    /\ lastOp = [name |-> "none", arg |-> 0]
    /\ prev = [view |-> "none"]
    /\ calls = << >>
    /\ left = MaxStartOps

NextStored ==
    \/ onMounted
    \/ MountLibrary
    \/ MountExport
    \/ Regenerate
    \/ \E index \in 0..1 : TogglePin(index)
    \/ \E id \in 1..2 : ToggleFavorite(id)
    \/ HandlerThrows

SpecStored == InitStored /\ [][NextStored]_vars

(***************************************************************************)
(* The generator started on a handoff while a session is persisted: the    *)
(* library view has applied an entry and the router is about to mount the  *)
(* generator.                                                              *)
(***************************************************************************)

MaxHandoffOps == 3

\* Entries of 1, 5, 6 and 7 colours.
HandoffEntries ==
    { [i \in 1..n |-> EncodeColor("HEX", << 10, 60, 120 >>)] : n \in { 1, 5, 6, 7 } }

\* Sessions the generator persisted before: none, and sessions of every
\* format, size and preview with pinned slots.
HandoffSessions ==
    { NoValue,
      SavedPaletteState(ScenarioPalette, "HEX", 3, FALSE),
      SavedPaletteState(Alternating(<< TRUE, FALSE, TRUE, FALSE, FALSE, FALSE, TRUE >>),
                        "RGB", 7, FALSE),
      SavedPaletteState(PinnedPrefix(5, 2), "RGB", 5, TRUE) }

InitHandoff ==
    /\ InitOther
    /\ view = "routing"
    /\ savedState \in HandoffSessions
    /\ \E h \in HandoffEntries :
         /\ activePalette = ActivePalette(h)
         /\ savedLibrary = LibraryOf(<< [id |-> 1, name |-> DefaultName,
                                          tags |-> << GeneratedTag >>,
                                          colors |-> h, favorite |-> FALSE] >>)
    /\ items = << >>
    /\ format = "HEX"
    /\ paletteSize = DefaultPaletteSize
    /\ colors = << >>
    /\ pinedColors = << >>
    /\ isDarkPreview = TRUE
    /\ lastOp = [name |-> "none", arg |-> 0]
    /\ prev = [view |-> "none"]
    /\ calls = << >>
    /\ left = MaxHandoffOps

SpecHandoff == InitHandoff /\ [][Next]_vars

(***************************************************************************)
(* The conversions parseHexToRgb and rgbToHex on their own: a value is     *)
(* given, and the two functions are applied in turn, each to the result    *)
(* of the one before.                                                      *)
(***************************************************************************)

\* The number of applications one run makes.
MaxConvertOps == 2

\* Pairs of characters that are two hexadecimal digits, and pairs that are
\* not: a letter past f, a leading blank, a sign.
HexPairs == { << "0", "0" >>, << "0", "a" >>, << "7", "F" >>, << "f", "f" >> }
OtherPairs == { << "0", "g" >>, << " ", "f" >>, << "-", "1" >> }

\* Six characters made of three pairs.
SixCharacters ==
    { a \o b \o c : a, b, c \in HexPairs \cup OtherPairs }

\* Texts with a marker, leading or not, and texts of other lengths.
MarkedTexts ==
    { << "#", "0", "a", "7", "F", "f", "f" >>, << "1", "2", "#", "3", "4", "5", "6" >>, << "1", "2", "3", "4", "5", "6", "#" >>, << "#", "#", "0", "a", "7", "F", "f", "f" >>, << "#", "0", "g", "0", "0", "0", "0" >> }
OtherLengths ==
    { << >>, << "f", "f", "f" >>, << "0", "a", "7", "F", "f" >>, << "0", "a", "7", "F", "f", "f", "0" >>, << "#", "f", "f", "f" >> }

TextInputs == SixCharacters \cup MarkedTexts \cup OtherLengths

\* Channels in 0..255, below and above 16.
ChannelInputs == { 0, 9, 16, 255 }

TextOf(t) == [kind |-> "text", text |-> t]
TripleOf(r, g, b) == [kind |-> "triple", r |-> r, g |-> g, b |-> b]

GivenInputs ==
    { TextOf(t) : t \in TextInputs }
      \cup { TripleOf(r, g, b) : r, g, b \in ChannelInputs }

\* The variables the conversions leave alone.
convertFrame ==
    << view, format, paletteSize, colors, pinedColors, isDarkPreview, items,
       savedState, savedLibrary, activePalette, prev, calls, thrown,
       libraryVars, exportVars, toastVars, asyncVars, given, loop >>

\* The function applied last, "none" before the first application.
LastFn == IF evaluated = << >> THEN "none" ELSE evaluated[Len(evaluated)].fn

\* The value the next function is applied to.
Current == IF evaluated = << >> THEN given ELSE evaluated[Len(evaluated)].result

Applied(fn, result) ==
    /\ left > 0
    /\ left' = left - 1
    /\ lastOp' = [name |-> fn, arg |-> 0]
    /\ evaluated' = Append(evaluated, [fn |-> fn, result |-> result])
    /\ UNCHANGED convertFrame

\* parseHexToRgb applied to the given text, or to the text rgbToHex returned.
ParseHexToRgb ==
    /\ \/ evaluated = << >> /\ given.kind = "text"
       \/ LastFn = "rgbToHex"
    /\ LET hex == IF evaluated = << >> THEN given.text ELSE Current
       IN  Applied("parseHexToRgb", parseHexToRgb(hex))

\* rgbToHex applied to the given triple, or to the triple parseHexToRgb
\* returned.
RgbToHex ==
    /\ \/ evaluated = << >> /\ given.kind = "triple"
       \/ LastFn = "parseHexToRgb" /\ Current # Null
    /\ Applied("rgbToHex", rgbToHex(Current.r, Current.g, Current.b))

InitConvert ==
    /\ InitRefs
    /\ view = "boot"
    /\ format = "HEX"
    /\ paletteSize = DefaultPaletteSize
    /\ colors = << >>
    /\ pinedColors = << >>
    /\ isDarkPreview = TRUE
    /\ items = << >>
    /\ savedState = NoValue
    /\ savedLibrary = NoValue
    /\ activePalette = NoValue
    /\ lastOp = [name |-> "none", arg |-> 0]
    /\ prev = [view |-> "none"]
    /\ calls = << >>
    /\ left = MaxConvertOps
    /\ given \in GivenInputs
    /\ evaluated = << >>
    /\ loop = NoLoop

NextConvert ==
    \/ ParseHexToRgb
    \/ RgbToHex

SpecConvert == InitConvert /\ [][NextConvert]_vars

(***************************************************************************)
(* The generator step by step: every pass of the loop of                   *)
(* getRandomAaaRgbColor is a step, and so is the return of every call of   *)
(* generateRandomPaletteValues a handler makes.                            *)
(***************************************************************************)

\* The largest count generate is called with on its own.
MaxCount == 3

\* The lengths of the calls of generateRandomPaletteValues a handler makes,
\* in order (they are the same for every outcome of the handler).
LengthsOf(outcomes) ==
    LET o == CHOOSE x \in outcomes : TRUE
    IN  [i \in 1..Len(o.calls) |-> o.calls[i].length]

\* A handler at its start: todo holds the lengths of the calls it will
\* make, result the values the running call has pushed, drawn the triple
\* of the last pass, rejected whether a pass failed the contrast test.
Job(op, type, todo) ==
    [op |-> op, type |-> type, todo |-> todo, result |-> << >>,
     drawn |-> << >>, rejected |-> FALSE, returned |-> FALSE]

\* Palettes the handlers start from: as long as the size, shorter, longer,
\* with no slot, some slots and every slot pinned.
LoopPalettes ==
    { ScenarioPalette, PinnedPrefix(5, 0), PinnedPrefix(5, 2), PinnedPrefix(7, 7) }

\* Stored sessions and handoffs Initialize starts from.
LoopSessions ==
    { NoValue, SavedPaletteState(ScenarioPalette, "RGB", 7, TRUE),
      SavedPaletteState(PinnedPrefix(5, 2), "HEX", 3, TRUE) }
LoopHandoffs ==
    { << EncodeColor("HEX", << 10, 60, 120 >>) >>,
      [i \in 1..6 |-> EncodeColor("HEX", << 10, 60, 120 >>)] }

Jobs ==
    { Job("generate", t, << n >>) : t \in FormatOptions, n \in 0..MaxCount }
      \cup { Job("Regenerate", t, LengthsOf(generateNewPalette(c, n, t))) :
                t \in FormatOptions, c \in LoopPalettes, n \in SizeOptions }
      \cup { Job("ChangeEncoding", t, LengthsOf(handleChangeFormat(c, n, t))) :
                t \in FormatOptions, c \in LoopPalettes, n \in SizeOptions }
      \cup { Job("Resize", t, LengthsOf(ensurePaletteSize(c, n, t))) :
                t \in FormatOptions, c \in LoopPalettes, n \in SizeOptions }
      \cup { Job("Initialize", loadFromStorage(raw).format, LengthsOf(loadOrGenerate(raw))) :
                raw \in LoopSessions }
      \cup { Job("Initialize", "HEX", LengthsOf(applyFromLibrary(h, DefaultPaletteSize, "HEX"))) :
                h \in LoopHandoffs }

\* The variables the steps of the generator leave alone.
loopFrame ==
    << view, format, paletteSize, colors, pinedColors, isDarkPreview, items,
       savedState, savedLibrary, activePalette, prev, calls, thrown, left,
       libraryVars, exportVars, toastVars, asyncVars, given, evaluated >>

\* The loop of getRandomAaaRgbColor is running: a call is under way and
\* has values left to push.
InLoop ==
    /\ loop.op # "none"
    /\ ~loop.returned
    /\ loop.todo # << >>
    /\ Len(loop.result) < Head(loop.todo)

\* A variant in which the loop leaves only through a failed test, so that a
\* triple passing the test is drawn again.
DrawAcceptedAgain ==
    /\ InLoop
    /\ \E t \in RandomTriple :
         /\ isAaaContrastWithWhite(t[1], t[2], t[3])
         /\ loop' = [loop EXCEPT !.drawn = t]
    /\ lastOp' = [name |-> "accepted", arg |-> 0]
    /\ UNCHANGED loopFrame

\* A pass that draws a triple failing the test: the loop goes round again.
DrawRejected ==
    /\ InLoop
    /\ \E t \in RandomTriple :
         /\ ~isAaaContrastWithWhite(t[1], t[2], t[3])
         /\ loop' = [loop EXCEPT !.drawn = t, !.rejected = TRUE]
    /\ lastOp' = [name |-> "rejected", arg |-> 0]
    /\ UNCHANGED loopFrame

\* A pass that draws a triple passing the test: getRandomAaaRgbColor
\* returns it and generateRandomPaletteValues pushes it.
DrawAccepted ==
    /\ InLoop
    /\ \E t \in RandomTriple :
         /\ isAaaContrastWithWhite(t[1], t[2], t[3])
         /\ loop' = [loop EXCEPT !.drawn = t,
                                 !.result = Append(@, EncodeColor(loop.type, t))]
    /\ lastOp' = [name |-> "accepted", arg |-> 0]
    /\ UNCHANGED loopFrame

\* generateRandomPaletteValues returns once its for loop has pushed length
\* values.
CallReturns ==
    /\ loop.op # "none"
    /\ ~loop.returned
    /\ loop.todo # << >>
    /\ Len(loop.result) = Head(loop.todo)
    /\ loop' = [loop EXCEPT !.todo = Tail(@), !.result = << >>]
    /\ lastOp' = [name |-> "callReturns", arg |-> Head(loop.todo)]
    /\ UNCHANGED loopFrame

\* The handler returns once it has made its calls.
HandlerReturns ==
    /\ loop.op # "none"
    /\ ~loop.returned
    /\ loop.todo = << >>
    /\ loop' = [loop EXCEPT !.returned = TRUE]
    /\ lastOp' = [name |-> "returns", arg |-> 0]
    /\ UNCHANGED loopFrame

InitGenerate ==
    /\ InitRefs
    /\ view = "boot"
    /\ format = "HEX"
    /\ paletteSize = DefaultPaletteSize
    /\ colors = << >>
    /\ pinedColors = << >>
    /\ isDarkPreview = TRUE
    /\ items = << >>
    /\ savedState = NoValue
    /\ savedLibrary = NoValue
    /\ activePalette = NoValue
    /\ lastOp = [name |-> "none", arg |-> 0]
    /\ prev = [view |-> "none"]
    /\ calls = << >>
    /\ left = 0
    /\ given = NoInput
    /\ evaluated = << >>
    /\ loop \in Jobs

NextGenerate ==
    \/ DrawRejected
    \/ DrawAccepted
    \/ CallReturns
    \/ HandlerReturns

SpecGenerate == InitGenerate /\ [][NextGenerate]_vars

\* The sampler is fair: a triple that passes the test is drawn in the end;
\* a call and a handler that can return do.
FairGenerate ==
    /\ SpecGenerate
    /\ WF_vars(DrawAccepted)
    /\ WF_vars(CallReturns)
    /\ WF_vars(HandlerReturns)

(***************************************************************************)
(* Properties                                                              *)
(***************************************************************************)

PinnedOf(cols) == SelectSeq(cols, IsPinned)

\* The values of Results(calls) as a set.
FreshValues == { Results(calls)[j] : j \in 1..Len(Results(calls)) }

\* C1: whenever the generator is mounted and an operation has completed,
\* the number of palette slots equals the configured palette size.
C1_LengthIsSize ==
    view = "generator" => Len(colors) = paletteSize

\* C2: Regenerate leaves the sequence of pinned slots (values, relative
\* order, number) as it was, and no other slot of the result is pinned.
C2_RegenerateKeepsPinned ==
    lastOp.name = "generateNewPalette" =>
        PinnedOf(colors) = PinnedOf(prev.colors)

\* Regenerate acted on a palette with two pinned slots of different values
\* and an unpinned slot.
C2_Witness ==
    /\ lastOp.name = "generateNewPalette"
    /\ \E i, j \in 1..Len(prev.colors) :
         /\ i < j
         /\ prev.colors[i].isPinned /\ prev.colors[j].isPinned
         /\ prev.colors[i].value # prev.colors[j].value
    /\ \E k \in 1..Len(prev.colors) : ~prev.colors[k].isPinned

C4_StoredIsCurrent ==
    view = "generator" =>
        savedState = SavedPaletteState(colors, format, paletteSize, isDarkPreview)

\* C5: when the generator's start finds a handoff value, usable or not, the
\* handoff key is absent afterwards; and a start that finds no handoff
\* takes the persisted-session path.
C5_HandoffConsumed ==
    lastOp.name = "onMounted" =>
        /\ activePalette = NoValue
        /\ prev.activePalette = NoValue =>
             [format |-> format, paletteSize |-> paletteSize,
              isDarkPreview |-> isDarkPreview, colors |-> colors, calls |-> calls]
               \in loadOrGenerate(prev.savedState)

\* The generator started with an unusable handoff value in the store.
C5_Witness ==
    /\ lastOp.name = "onMounted"
    /\ prev.activePalette = Unparsable
    /\ activePalette = NoValue

\* C6: applying a library entry writes its colours to the handoff key, and
\* the generator's start that follows shows them first, in the entry's
\* order and unpinned; the size becomes the number of colours when that
\* exceeds the configured size, and otherwise the remaining slots up to the
\* configured size are freshly generated and unpinned.
C6_ApplyThenInitialize ==
    /\ view = "routing" =>
         /\ lastOp.name = "applyPalette"
         /\ activePalette = ActivePalette(prev.items[lastOp.arg].colors)
    /\ lastOp.name = "onMounted" /\ prev.view = "routing" =>
         LET entry == prev.activePalette.colors
             n == Len(entry)
         IN  /\ paletteSize = IF n > prev.paletteSize THEN n ELSE prev.paletteSize
             /\ Len(colors) = paletteSize
             /\ SubSeq(colors, 1, n) = Unpinned(entry)
             /\ SubSeq(colors, n + 1, Len(colors)) = Unpinned(Results(calls))
             /\ \A j \in 1..Len(calls) : calls[j].result \in
                  generateRandomPaletteValues(calls[j].type, calls[j].length)

\* The generator started on an applied entry with more colours than the
\* configured size.
C6_Witness ==
    /\ lastOp.name = "onMounted"
    /\ prev.view = "routing"
    /\ Len(prev.activePalette.colors) > prev.paletteSize
    /\ Len(colors) = Len(prev.activePalette.colors)

ChannelsOf(value) ==
    IF IsRgbString(value) THEN MatchRgbFrom(value, 1) ELSE parseHexToRgb(value)

\* C8: a call of the generator for count colours returns count values, each
\* written in the requested encoding, with every channel in 0..120 and a
\* contrast ratio of at least 7 against white.
C8_Generate ==
    \A j \in 1..Len(calls) :
        LET c == calls[j]
        IN  /\ Len(c.result) = c.length
            /\ \A i \in 1..Len(c.result) :
                 LET v == c.result[i]
                     ch == ChannelsOf(v)
                 IN  /\ IsRgbString(v) <=> c.type = "RGB"
                     /\ c.type = "HEX" => Len(v) = 6
                     /\ ch # Null
                     /\ ch.r \in 0..120 /\ ch.g \in 0..120 /\ ch.b \in 0..120
                     /\ RatioAtLeast(
                          getContrastRatio(10000, getRelativeLuminance(ch.r, ch.g, ch.b)),
                          70)

\* One operation called the generator for several colours in the RGB encoding.
C8_Witness ==
    \E j \in 1..Len(calls) :
        /\ calls[j].type = "RGB"
        /\ calls[j].length >= 2
        /\ Len(calls[j].result) = calls[j].length

\* C9: TogglePin with an index that has a slot flips the pin flag of that
\* slot and nothing else of the palette, the format or the size, so a second
\* toggle restores the palette; with any other index nothing changes.
C9_TogglePin ==
    lastOp.name = "handleTogglePin" =>
        LET at == lastOp.arg + 1
        IN  /\ format = prev.format
            /\ paletteSize = prev.paletteSize
            /\ at \in 1..Len(prev.colors) =>
                 /\ colors = [prev.colors EXCEPT
                                ![at].isPinned = ~prev.colors[at].isPinned]
                 /\ handleTogglePin(colors, pinedColors, lastOp.arg).colors = prev.colors
            /\ at \notin 1..Len(prev.colors) => Snapshot = prev

\* TogglePin took an index past the end of a palette, and an index of a
\* pinned slot.
C9_Witness ==
    /\ lastOp.name = "handleTogglePin"
    /\ Len(prev.colors) > 0
    /\ \/ lastOp.arg >= Len(prev.colors)
       \/ /\ lastOp.arg < Len(prev.colors)
          /\ prev.colors[lastOp.arg + 1].isPinned
          /\ ~colors[lastOp.arg + 1].isPinned

\* C10: ChangeEncoding leaves the value of every pinned slot as it was
\* stored, gives every unpinned slot a freshly generated value written in
\* the new encoding, and keeps the palette as long as the configured size.
C10_ChangeEncoding ==
    lastOp.name = "handleChangeFormat" =>
        /\ format # prev.format
        /\ PinnedOf(colors) = PinnedOf(prev.colors)
        /\ Len(colors) = paletteSize
        /\ \A j \in 1..Len(calls) : calls[j].type = format
        /\ \A i \in 1..Len(colors) :
             ~colors[i].isPinned =>
                 /\ colors[i].value \in FreshValues
                 /\ IsRgbString(colors[i].value) <=> format = "RGB"

\* The encoding changed on a palette with a pinned slot written in the old
\* encoding and an unpinned slot.
C10_Witness ==
    /\ lastOp.name = "handleChangeFormat"
    /\ \E i \in 1..Len(prev.colors) :
         /\ prev.colors[i].isPinned
         /\ IsRgbString(prev.colors[i].value) <=> prev.format = "RGB"
    /\ \E i \in 1..Len(prev.colors) : ~prev.colors[i].isPinned
    /\ \E i \in 1..Len(colors) : ~colors[i].isPinned

\* C11: saving to the library puts at the front of the library an entry
\* whose colours are the values of the slots pinned in the palette at that
\* moment, in palette order and as HEX, tagged "generated" and not
\* favorite, and the previous entries follow in their order.
C11_SaveStoresPinned ==
    lastOp.name = "savePalette" =>
        LET pinnedNow == PinnedOf(prev.colors)
            library == StoredLibrary(savedLibrary)
        IN  /\ Len(library) = Len(StoredLibrary(prev.savedLibrary)) + 1
            /\ Tail(library) = StoredLibrary(prev.savedLibrary)
            /\ Head(library).tags = << GeneratedTag >>
            /\ Head(library).favorite = FALSE
            /\ Head(library).colors =
                 [i \in 1..Len(pinnedNow) |-> NormalizeHex(pinnedNow[i].value)]

\* a and b are the same text when the case of letters is ignored.
SameIgnoringCase(a, b) == toLowerCase(a) = toLowerCase(b)

\* q occurs in text, the case of letters ignored.
OccursIn(q, text) ==
    \E i \in 1..(Len(text) - Len(q) + 1) :
        SameIgnoringCase(SubSeq(text, i, i + Len(q) - 1), q)

\* The entry passes every filter that is active.
PassesFilters(it) ==
    LET query == trim(search)
        wanted == trim(tagFilter)
    IN  /\ showFavoritesOnly => it.favorite
        /\ query # << >> =>
             \/ OccursIn(query, it.name)
             \/ \E k \in 1..Len(it.tags) : OccursIn(query, it.tags[k])
        /\ wanted # << >> =>
             \E k \in 1..Len(it.tags) : SameIgnoringCase(it.tags[k], wanted)

\* C12: the list shows, in library order, exactly the entries that pass
\* all active filters: the query as a substring of the name or of a tag,
\* the tag filter as equal to a tag, both ignoring case, and favorites
\* only.  The query "sunset" over [Sunset glow, Ocean tagged sunset,
\* Forest] lists the first two.
C12_ListFilters ==
    view = "library" =>
        /\ filteredItems = SelectSeq(items, PassesFilters)
        /\ ( /\ search = << "s", "u", "n", "s", "e", "t" >>
             /\ tagFilter = << >>
             /\ ~showFavoritesOnly
             /\ \E fav \in [1..3 -> BOOLEAN] : items = ScenarioLibrary(fav) )
           => filteredItems = SubSeq(items, 1, 2)

\* The scenario's query over the scenario's library.
C12_Witness ==
    /\ view = "library"
    /\ search = << "s", "u", "n", "s", "e", "t" >>
    /\ tagFilter = << >>
    /\ ~showFavoritesOnly
    /\ items = ScenarioLibrary(<< FALSE, FALSE, FALSE >>)
    /\ Len(filteredItems) = 2

\* The tags of the text without the repeated ones, the first of each kept.
RECURSIVE WithoutRepeats(_)
WithoutRepeats(tags) ==
    IF tags = << >> THEN << >>
    ELSE LET front == WithoutRepeats(SubSeq(tags, 1, Len(tags) - 1))
             last == tags[Len(tags)]
         IN  IF \E k \in 1..Len(front) : front[k] = last THEN front
             ELSE Append(front, last)

\* C13: saving an edit replaces the entry's name by the trimmed name when
\* that is not empty, and its tags by the tags of the comma-separated text,
\* trimmed, without empty tags and without repeated tags; no other entry
\* changes.
C13_UpdateEntry ==
    (lastOp.name = "saveEdit" /\ FindIndex(prev.items, lastOp.arg) # 0) =>
        LET at == FindIndex(prev.items, lastOp.arg)
            was == prev.items[at]
        IN  /\ Len(items) = Len(prev.items)
            /\ \A k \in 1..Len(items) : k # at => items[k] = prev.items[k]
            /\ items[at].name = IF trim(prev.editName) # << >> THEN trim(prev.editName)
                                ELSE was.name
            /\ items[at].tags = WithoutRepeats(editedTags(prev.editTags))
            /\ \A i, j \in 1..Len(items[at].tags) :
                 i # j => items[at].tags[i] # items[at].tags[j]
            /\ items[at].id = was.id
            /\ items[at].colors = was.colors
            /\ items[at].favorite = was.favorite

\* C14: toggleFavorite flips the favorite flag of the entry with the id
\* and nothing else; delete removes that entry and keeps the others in
\* their order; with an id no entry has, both change nothing.
C14_FavoriteAndDelete ==
    /\ lastOp.name = "toggleFavorite" =>
         LET at == FindIndex(prev.items, lastOp.arg)
         IN  /\ at = 0 => Snapshot = prev
             /\ at # 0 =>
                  /\ items = [prev.items EXCEPT ![at].favorite = ~prev.items[at].favorite]
                  /\ [Snapshot EXCEPT !.items = prev.items,
                                      !.savedLibrary = prev.savedLibrary] = prev
                  /\ savedLibrary = LibraryOf(items)
    /\ lastOp.name = "deleteItem" =>
         /\ \A k \in 1..Len(items) : items[k].id # lastOp.arg
         /\ items = SelectSeq(prev.items, LAMBDA it : it.id # lastOp.arg)
         /\ FindIndex(prev.items, lastOp.arg) # 0 => Len(items) = Len(prev.items) - 1
         /\ FindIndex(prev.items, lastOp.arg) = 0 => Snapshot = prev
         /\ savedLibrary = LibraryOf(items)

\* A favorite entry lost its flag, the other entries present.
C14_Witness ==
    /\ lastOp.name = "toggleFavorite"
    /\ FindIndex(prev.items, lastOp.arg) # 0
    /\ Len(prev.items) > 1
    /\ prev.items[FindIndex(prev.items, lastOp.arg)].favorite
    /\ ~items[FindIndex(prev.items, lastOp.arg)].favorite

\* The time up to which the notification shown last is due to stay.
VisibleUntil == shownAt + ToastSeconds

\* C15: in the generator and in the export view a notification stays
\* visible until 2 seconds after the most recent notification was shown; the
\* timeout of an earlier notification never hides a later one before that.
C15_NotificationStays ==
    (shownAt # Never /\ now < VisibleUntil) =>
        /\ view = "generator" => showToast
        /\ view = "export" => showCopied

\* C19: for every session the generator persists, the CSS and the
\* preprocessor export have one line per slot, in palette order and
\* numbered from 1, and line N gives "#" and the 6-digit HEX of slot N.
C19_ExportLines ==
    (view = "export" /\ savedState.kind = "json") =>
        LET slots == savedState.colors
            hexOf(n) == << "#" >> \o NormalizeHex(slots[n].value)
        IN  /\ Len(scssVariables) = Len(slots)
            /\ Len(cssVariables) = Len(slots) + 2
            /\ \A n \in 1..Len(slots) :
                 /\ scssVariables[n] =
                      << "$", "c", "o", "l", "o", "r", "-" >> \o ToString10(n) \o << ":", " " >> \o hexOf(n) \o << ";" >>
                 /\ cssVariables[n + 1] =
                      << " ", " ", "-", "-", "c", "o", "l", "o", "r", "-" >> \o ToString10(n) \o << ":", " " >> \o hexOf(n) \o << ";" >>
                 /\ Len(hexOf(n)) = 7

\* C16: the configured palette size is 3, 5 or 7 in every state, also after
\* the generator starts on a handoff written for an entry that was saved
\* from the generator.
C16_SizeEnumerated ==
    paletteSize \in SizeOptions

\* C17: a handoff value that is present but unusable (it does not parse, or
\* has no non-empty colors array) is treated as absent: the start ends with
\* a full palette of the configured size, taken from the persisted session
\* or, without one, freshly generated.
C17_UnusableHandoffIgnored ==
    ( /\ lastOp.name = "onMounted"
      /\ prev.activePalette.kind # "none"
      /\ ~HandoffUsable(prev.activePalette) ) =>
        /\ Len(colors) > 0
        /\ Len(colors) = paletteSize
        /\ [format |-> format, paletteSize |-> paletteSize,
            isDarkPreview |-> isDarkPreview, colors |-> colors, calls |-> calls]
             \in loadOrGenerate(prev.savedState)

\* C18: a session value or library value that does not parse, or parses
\* to a value of an unexpected shape, is treated as absent: the generator
\* starts with the default format and size and a freshly generated full
\* palette, the library view starts empty, and no operation throws.
C18_CorruptionTreatedAsAbsent ==
    /\ ~thrown
    /\ view # "broken"
    /\ ( /\ lastOp.name = "onMounted"
         /\ prev.activePalette = NoValue
         /\ prev.savedState.kind \in { "unparsable", "misshapen" } ) =>
           /\ format = "HEX"
           /\ paletteSize = DefaultPaletteSize
           /\ Len(colors) = DefaultPaletteSize
           /\ colors = Unpinned(Results(calls))
    /\ ( /\ lastOp.name = "mountLibrary"
         /\ prev.savedLibrary.kind \in { "unparsable", "misshapen" } ) =>
           items = << >>

\* The text is six hexadecimal digits.
IsSixDigitHex(text) ==
    Len(text) = 6 /\ \A k \in 1..6 : HexValue(text[k]) >= 0

\* The level of a contrast ratio << numerator, denominator >>.
LevelOf(ratio) ==
    IF ratio[1] >= 7 * ratio[2] THEN "AAA"
    ELSE IF 2 * ratio[1] >= 9 * ratio[2] THEN "AA"
    ELSE "none"

\* C20: the analysis has one row per slot whose value normalizes to a
\* 6-digit HEX, in palette order; a malformed rgb string counts as 000000,
\* a slot that does not normalize has no row; the levels of a row are AAA
\* from ratio 7, AA from 4.5 and none below.
C20_Analyze ==
    view = "generator" =>
        LET normal == SelectSeq(colors, LAMBDA c : IsSixDigitHex(NormalizeHex(c.value)))
            rows == accessibilityAnalysis(colors)
        IN  /\ Len(rows) = Len(normal)
            /\ \A i \in 1..Len(rows) :
                 /\ i <= Len(normal) => rows[i].hex = << "#" >> \o NormalizeHex(normal[i].value)
                 /\ rows[i].whiteLevel = LevelOf(rows[i].whiteRatio)
                 /\ rows[i].blackLevel = LevelOf(rows[i].blackRatio)

\* The luminance of a slot whose value is six hexadecimal digits after
\* normalization.
LuminanceOf(c) ==
    LET rgb == parseHexToRgb(NormalizeHex(c.value))
    IN  getRelativeLuminance(rgb.r, rgb.g, rgb.b)

\* C21: the accent is null exactly when the palette is empty or the
\* reference slot, at index floor(length / 2), does not normalize to six
\* hexadecimal digits; otherwise it is the normalizable slot whose contrast
\* ratio against the reference is greatest, the lowest index among ties.
C21_SuggestAccent ==
    view = "generator" =>
        LET n == Len(colors)
            ok(i) == IsSixDigitHex(NormalizeHex(colors[i].value))
            ref == (n \div 2) + 1
            ratio(i) == getContrastRatio(LuminanceOf(colors[ref]), LuminanceOf(colors[i]))
            best == accentColor(colors)
        IN  /\ (best = Null) <=> (n = 0 \/ ~ok(ref))
            /\ best # Null =>
                 \E i \in 1..n :
                    /\ ok(i)
                    /\ best.value = << "#" >> \o NormalizeHex(colors[i].value)
                    /\ best.ratio = ratio(i)
                    /\ \A j \in 1..n : ok(j) => ~RatioGreater(ratio(j), ratio(i))
                    /\ \A j \in 1..(i - 1) : ok(j) => RatioGreater(ratio(i), ratio(j))

\* The text without its marker, when the marker leads it.
WithoutLeadingMarker(text) ==
    IF text # << >> /\ Head(text) = "#" THEN Tail(text) ELSE text

\* The text parseHexToRgb was applied to at the k-th application.
ParsedText(k) == IF k = 1 THEN given.text ELSE evaluated[k - 1].result

\* C22: parseHexToRgb returns null for every text that, its leading marker
\* removed, is not exactly six hexadecimal digits.
C22_ParseRejects ==
    \A k \in 1..Len(evaluated) :
        ( /\ evaluated[k].fn = "parseHexToRgb"
          /\ ~IsSixDigitHex(WithoutLeadingMarker(ParsedText(k))) )
            => evaluated[k].result = Null

\* C23: for a text h of six hexadecimal digits, parseHexToRgb(h) is a
\* triple and rgbToHex of it is h up to the case of letters; for a triple
\* with channels in 0..255, parseHexToRgb(rgbToHex(r, g, b)) is the triple.
C23_RoundTrip ==
    /\ ( given.kind = "text" /\ IsSixDigitHex(given.text) ) =>
          /\ Len(evaluated) >= 1 => evaluated[1].result # Null
          /\ Len(evaluated) >= 2 => SameIgnoringCase(evaluated[2].result, given.text)
    /\ ( given.kind = "triple" /\ Len(evaluated) >= 2 ) =>
          evaluated[2].result = [r |-> given.r, g |-> given.g, b |-> given.b]

\* A text with a capital letter and a pair below 16 went through both
\* functions and came back in small letters.
C23_Witness ==
    /\ given.kind = "text"
    /\ IsSixDigitHex(given.text)
    /\ Len(evaluated) = 2
    /\ evaluated[2].fn = "rgbToHex"
    /\ evaluated[2].result # given.text
    /\ given.text[1] = "0"

\* C24: once every clipboard write has settled, the notification on
\* display carries the message of the copy action issued last, whatever
\* order the writes settled in; and the settling of a write leaves the
\* palette slots, the format and the size as they were.
C24_LatestCopyWins ==
    /\ ( view = "generator" /\ Len(issued) >= 2 /\ pending = {} /\ showToast ) =>
          toastMessage \in { issued[Len(issued)] \o CopiedSuffix,
                             FailedPrefix \o issued[Len(issued)] }
    /\ lastOp.name = "toast" =>
          /\ colors = prev.colors
          /\ format = prev.format
          /\ paletteSize = prev.paletteSize

\* C25: with a fair sampler every call of generate, for every count from
\* 0 on, and every handler that calls it (Regenerate, ChangeEncoding, Resize,
\* Initialize) returns in the end.
C25_Terminates == <>(loop.returned)

\* A call for several values has returned after a pass of the loop failed
\* the test.
C25_Witness ==
    /\ loop.op = "generate"
    /\ loop.returned
    /\ loop.rejected
    /\ lastOp.name = "returns"

\* The handlers of the generator that change the palette or start it.
GeneratorOperations ==
    { "onMounted", "handleTogglePin", "generateNewPalette", "handleChangeFormat",
      "handleChangeSize" }

\* C26: after every operation of the generator the list of pinned colours
\* that enables and feeds the saving to the library is the pinned slots of
\* the current palette, in palette order.
C26_PinnedListCurrent ==
    ( view = "generator" /\ lastOp.name \in GeneratorOperations /\ ~thrown ) =>
        pinedColors = PinnedOf(colors)

\* The value stands for a colour whose contrast ratio against white is at
\* least 7.
IsAaaValue(value) ==
    LET ch == ChannelsOf(value)
    IN  /\ ch # Null
        /\ RatioAtLeast(getContrastRatio(10000, getRelativeLuminance(ch.r, ch.g, ch.b)), 70)

\* The entries of the library, in the store and in the library view.
EntriesNow ==
    LET stored == StoredLibrary(savedLibrary)
    IN  { stored[i] : i \in 1..Len(stored) } \cup { items[i] : i \in 1..Len(items) }

\* C27: from the empty store and with the operations of the application
\* alone, every slot of the palette and every colour of every library entry
\* has a contrast ratio of at least 7 against white, and every library entry
\* has between 1 and 7 colours.
C27_OwnColoursContrast ==
    /\ \A i \in 1..Len(colors) : IsAaaValue(colors[i].value)
    /\ \A e \in EntriesNow :
         /\ Len(e.colors) \in 1..7
         /\ \A k \in 1..Len(e.colors) : IsAaaValue(e.colors[k])

\* The generator started on an entry of the library that was saved from a
\* palette of the application.
C27_Witness ==
    /\ view = "generator"
    /\ lastOp.name = "onMounted"
    /\ prev.activePalette # NoValue
    /\ Len(colors) > 0
    /\ Len(StoredLibrary(savedLibrary)) >= 1

\* C28: when the start of the generator consumes a handoff of n colours,
\* the state that results has the format HEX, the size max(5, n), the dark
\* preview on and no pinned slot, whatever session was persisted, and the
\* persisted session becomes this state.
C28_HandoffIgnoresSession ==
    ( lastOp.name = "onMounted" /\ HandoffUsable(prev.activePalette) ) =>
        LET n == Len(prev.activePalette.colors)
        IN  /\ format = "HEX"
            /\ paletteSize = Max(DefaultPaletteSize, n)
            /\ isDarkPreview = TRUE
            /\ \A i \in 1..Len(colors) : ~colors[i].isPinned
            /\ pinedColors = << >>
            /\ savedState = SavedPaletteState(colors, "HEX", Max(DefaultPaletteSize, n), TRUE)

\* A handoff of 6 colours was consumed while a session of 7 slots in RGB,
\* with the light preview and pinned slots, was persisted.
C28_Witness ==
    /\ lastOp.name = "onMounted"
    /\ HandoffUsable(prev.activePalette)
    /\ Len(prev.activePalette.colors) = 6
    /\ prev.savedState.kind = "json"
    /\ prev.savedState.format = "RGB"
    /\ prev.savedState.size = 7
    /\ ~prev.savedState.isDarkPreview
    /\ \E i \in 1..Len(prev.savedState.colors) : prev.savedState.colors[i].isPinned
    /\ Len(colors) = 6

=============================================================================
